---- MODULE Spec2Model ----
(***************************************************************************)
(* Model of RecommendationService (ai_core/recommendation_service.py):    *)
(* recommend(), its pool building, filter stage, ranking, history filter   *)
(* and history buffer.  The catalog client is the environment: every      *)
(* capability call returns a list the catalog holds, or raises.            *)
(***************************************************************************)
EXTENDS Integers, Sequences, FiniteSets, TLC

VARIABLES
    history,    \* self._user_track_history: user key -> list of served track ids
    catalog,    \* what the catalog answers to each capability call
    models,     \* which Track / RecommendationResult records the service is linked with
    last,       \* the last finished call: its request, outcome and intermediate lists
    served,     \* per user key, every id handed to _remember_tracks, in order
    ncalls,     \* number of finished calls
    fn,         \* a helper of the service called on its own: its input and its result
    inflight    \* per request thread, the recommend() call it is running

vars == <<history, catalog, models, last, served, ncalls, fn, inflight>>

----------------------------------------------------------------------------
(* Bounds *)

MaxCalls == 2          \* calls per behaviour
MaxLimit == 2          \* largest explicit limit a request carries
DefaultLimit == 2      \* default_limit passed to the constructor
MaxBatch == 101        \* longest id list handed to _remember_tracks directly
MaxHistoryCalls == 3   \* calls per behaviour of the history specification

(* Program constants *)

HistoryMax == 200      \* self._history_max
RecFloor == 40         \* popularity floor on the recommendation response
Floor1 == 55
Floor2 == 50
Floor3 == 45
SupplementFloor == 40
RankMargin == 5        \* extra_margin
MinBackfill == 10      \* max(limit * 2, 10)
MaxDistance == 1000000000   \* 1e9, "no common feature"
MaxSeeds == 5          \* [:5] on the anchor artists

----------------------------------------------------------------------------
(* Data *)

NoId == 0              \* a track without "id" (None / missing / empty)

Trk(i, n, a, p, e) == [id |-> i, name |-> n, artist |-> a, pop |-> p, energy |-> e]

\* energy is the track's audio feature in tenths; -1: the catalog has no features for it.
T1  == Trk(1, "Song",   "A", 60, 10)
T2  == Trk(2, " song ", "a", 60, 0)    \* same normalized (name, lead artist) as T1, other id
T3  == Trk(3, "Tune",   "A", 47, 0)
T4  == Trk(4, "Blue",   "",  42, -1)   \* no artist name
T5  == Trk(5, "Low",    "C", 30, 10)
T6  == Trk(6, "Deep",   "B", 60, 0)
T7  == Trk(7, "Grey",   "D", 41, 0)
T0  == Trk(NoId, "Ghost", "B", 60, -1) \* no id

Keys == {"u1", "__default__"}

Min(a, b) == IF a < b THEN a ELSE b
Max(a, b) == IF a > b THEN a ELSE b

Range(s) == {s[i] : i \in 1..Len(s)}

Ids(s) == [i \in 1..Len(s) |-> s[i].id]

\* ids of the tracks of s that have one
IdSet(s) == {s[i].id : i \in 1..Len(s)} \ {NoId}

NoDup(s) == \A i, j \in 1..Len(s) : i # j => s[i] # s[j]

\* str.lower() on the texts of the catalog
Lower(s) ==
    CASE s = "Song" -> "song"
      [] s = "Tune" -> "tune"
      [] s = "Blue" -> "blue"
      [] s = "Low" -> "low"
      [] s = "Ghost" -> "ghost"
      [] s = "Deep" -> "deep"
      [] s = "Grey" -> "grey"
      [] s = "D" -> "d"
      [] s = "A" -> "a"
      [] s = "B" -> "b"
      [] s = "C" -> "c"
      [] s = "E" -> "e"
      [] s = "F" -> "f"
      [] s = "Pop" -> "pop"
      [] OTHER -> s

\* re.sub(r"\s+", " ", text).strip()
Collapse(s) == IF s = " song " THEN "song" ELSE s

\* the normalization of _norm_pair: lowercased, whitespace-collapsed, stripped
NormText(s) == Collapse(Lower(s))

\* _norm_pair: the key f"{track_name}::{artist_name}"
NormPair(name, artist) == <<NormText(name), NormText(artist)>>

PairOf(t) == NormPair(t.name, t.artist)

PairSet(s) == {PairOf(s[i]) : i \in 1..Len(s)}

\* _korean_like: every branch returns True
KoreanLike(t) == TRUE

----------------------------------------------------------------------------
(* list.sort(key=score, reverse=True): stable, descending.  Items are       *)
(* records [score, track].                                                  *)

InsertByScore(sorted, x) ==
    LET k == Cardinality({i \in 1..Len(sorted) : sorted[i].score >= x.score})
    IN  SubSeq(sorted, 1, k) \o <<x>> \o SubSeq(sorted, k + 1, Len(sorted))

RECURSIVE SortByScore(_)
SortByScore(s) ==
    IF s = <<>> THEN <<>>
    ELSE InsertByScore(SortByScore(SubSeq(s, 1, Len(s) - 1)), s[Len(s)])

TracksOf(scored) == [i \in 1..Len(scored) |-> scored[i].track]

Take(s, n) == SubSeq(s, 1, Min(Max(n, 0), Len(s)))

\* _score_item with no era window and no remaster keyword: popularity / 100
ScoreItem(t) == t.pop

SortByItemScore(s) ==
    TracksOf(SortByScore([i \in 1..Len(s) |-> [score |-> ScoreItem(s[i]), track |-> s[i]]]))

----------------------------------------------------------------------------
(* recommend(), lines 458-471: one track per lead artist, first one wins;   *)
(* a track without artist name is always kept.                              *)

\* a pass that drops nothing
DiverseKeepingAll(pool, i, seenArtists, acc) == pool

RECURSIVE DiverseFrom(_, _, _, _)
DiverseFrom(pool, i, seenArtists, acc) ==
    IF i > Len(pool) THEN acc
    ELSE LET key == pool[i].artist
         IN  IF key = "" \/ key \notin seenArtists
             THEN DiverseFrom(pool, i + 1, seenArtists \cup ({key} \ {""}), Append(acc, pool[i]))
             ELSE DiverseFrom(pool, i + 1, seenArtists, acc)

Diverse(pool) ==
    LET d == DiverseFrom(pool, 1, {}, <<>>)
    IN  IF d # <<>> THEN d ELSE pool

----------------------------------------------------------------------------
(* recommend.apply_filters *)

RECURSIVE ApplyFiltersFrom(_, _, _, _, _, _)
ApplyFiltersFrom(pool, i, popFloor, seenIds, seenPairs, acc) ==
    IF i > Len(pool) THEN acc
    ELSE LET t == pool[i]
         IN  IF \/ t.pop < popFloor
                \/ ~KoreanLike(t)
                \/ (t.id # NoId /\ t.id \in seenIds)
                \/ PairOf(t) \in seenPairs
             THEN ApplyFiltersFrom(pool, i + 1, popFloor, seenIds, seenPairs, acc)
             ELSE ApplyFiltersFrom(pool, i + 1, popFloor, seenIds \cup {t.id},
                                   seenPairs \cup {PairOf(t)}, Append(acc, t))

\* the popularity test reversed: tracks above the floor are dropped
ApplyFiltersBelowFloor(pool, popFloor) ==
    ApplyFiltersFrom(SelectSeq(pool, LAMBDA t : t.pop <= popFloor), 1, 0, {}, {}, <<>>)

ApplyFilters(pool, popFloor) == ApplyFiltersFrom(pool, 1, popFloor, {}, {}, <<>>)

----------------------------------------------------------------------------
(* _augment_from_search_terms.  results[k] is what search_tracks_raw gave   *)
(* for the k-th term (empty when the call raised: except Exception:         *)
(* continue).                                                               *)

RECURSIVE AugmentScan(_, _, _, _, _, _)
AugmentScan(cands, i, ids, pairs, out, lim) ==
    IF i > Len(cands) \/ Len(out) >= lim
    THEN [ids |-> ids, pairs |-> pairs, out |-> out]
    ELSE LET t == cands[i]
         IN  IF t.id = NoId \/ t.id \in ids \/ PairOf(t) \in pairs
             THEN AugmentScan(cands, i + 1, ids, pairs, out, lim)
             ELSE AugmentScan(cands, i + 1, ids \cup {t.id}, pairs \cup {PairOf(t)},
                              Append(out, t), lim)

RECURSIVE AugmentTerms(_, _, _, _, _, _)
AugmentTerms(results, k, ids, pairs, out, lim) ==
    IF k > Len(results) \/ Len(out) >= lim THEN out
    ELSE LET r == AugmentScan(results[k], 1, ids, pairs, out, lim)
         IN  AugmentTerms(results, k + 1, r.ids, r.pairs, r.out, lim)

\* an augmentation that does not look at the tracks it is given as existing
AugmentIgnoringExisting(results, existing, lim) ==
    IF lim <= 0 \/ results = <<>> THEN <<>>
    ELSE AugmentTerms(results, 1, {}, {}, <<>>, lim)

AugmentFromSearchTerms(results, existing, lim) ==
    IF lim <= 0 \/ results = <<>> THEN <<>>
    ELSE AugmentTerms(results, 1, IdSet(existing), PairSet(existing), <<>>, lim)

\* the number of terms _augment_from_search_terms sends to search_tracks_raw:
\* the loop returns at the track that fills the list (line 717)
RECURSIVE AugmentAsked(_, _, _, _)
AugmentAsked(results, k, existing, lim) ==
    IF lim <= 0 \/ k > Len(results) THEN 0
    ELSE IF k > 1 /\ Len(AugmentFromSearchTerms(SubSeq(results, 1, k - 1), existing, lim)) >= lim
    THEN 0
    ELSE 1 + AugmentAsked(results, k + 1, existing, lim)

----------------------------------------------------------------------------
(* _augment_from_artist_search.  results[k] is the answer to the query      *)
(* artist:"<name k>"; seedLower the lowercased seed names.                  *)

RECURSIVE ArtistScan(_, _, _, _, _, _, _)
ArtistScan(cands, i, seedLower, ids, pairs, out, take) ==
    IF i > Len(cands) \/ Len(out) >= take
    THEN [ids |-> ids, pairs |-> pairs, out |-> out]
    ELSE LET t == cands[i]
         IN  IF \/ t.id = NoId \/ t.id \in ids
                \/ (t.artist # "" /\ Lower(t.artist) \notin seedLower)
                \/ PairOf(t) \in pairs
             THEN ArtistScan(cands, i + 1, seedLower, ids, pairs, out, take)
             ELSE ArtistScan(cands, i + 1, seedLower, ids \cup {t.id},
                             pairs \cup {PairOf(t)}, Append(out, t), take)

RECURSIVE ArtistTerms(_, _, _, _, _, _, _)
ArtistTerms(results, k, seedLower, ids, pairs, out, take) ==
    IF k > Len(results) \/ Len(out) >= take THEN out
    ELSE LET r == ArtistScan(results[k], 1, seedLower, ids, pairs, out, take)
         IN  ArtistTerms(results, k + 1, seedLower, r.ids, r.pairs, r.out, take)

AugmentFromArtistSearch(results, seedLower, existing, take) ==
    IF take <= 0 \/ results = <<>> THEN <<>>
    ELSE ArtistTerms(results, 1, seedLower, IdSet(existing), PairSet(existing), <<>>, take)

----------------------------------------------------------------------------
(* _feature_distance and _rank_tracks, in units of 1e-5.  feat is the       *)
(* track's energy in tenths (-1: no features), target the target energy in  *)
(* tenths (-1: empty target mapping).  The jitter hint of the catalog       *)
(* response is empty, so _jitter_score is 0.                                *)

FeatureDistance(feat, target) ==
    IF feat < 0 \/ target < 0 THEN MaxDistance
    ELSE (IF feat >= target THEN feat - target ELSE target - feat) * 10000

RankScore(t, feat, target, index) ==
    LET distance == IF target < 0 THEN 100000 ELSE FeatureDistance(feat, target)
    IN  (0 - distance) + t.pop * 500 - index

\* featOf[i]: features of tracks[i] in the audio-features map (-1 when absent)
RankTracks(tracks, featOf, target, lim) ==
    IF tracks = <<>> THEN <<>>
    ELSE Take(TracksOf(SortByScore(
            [i \in 1..Len(tracks) |->
                [score |-> RankScore(tracks[i], featOf[i], target, i - 1),
                 track |-> tracks[i]]])), lim)

----------------------------------------------------------------------------
(* _apply_history_filter *)

\* first loop: ranked tracks not yet served go to filtered (until limit), served ones to leftovers
\* a first loop that forgets the ids it has taken (no seen_ids test)
RECURSIVE PartitionKeepingRepeats(_, _, _, _, _, _, _)
PartitionKeepingRepeats(ranked, i, hist, seen, filtered, leftovers, lim) ==
    IF i > Len(ranked) \/ Len(filtered) >= lim
    THEN [seen |-> seen, filtered |-> filtered, leftovers |-> leftovers]
    ELSE LET t == ranked[i]
         IN  IF t.id = NoId
             THEN PartitionKeepingRepeats(ranked, i + 1, hist, seen, filtered, leftovers, lim)
             ELSE IF t.id \in hist
             THEN PartitionKeepingRepeats(ranked, i + 1, hist, seen, filtered,
                                          Append(leftovers, t), lim)
             ELSE PartitionKeepingRepeats(ranked, i + 1, hist, seen,
                                          Append(filtered, t), leftovers, lim)

\* lines 776-786, first loop: unseen ranked tracks, served ones set aside
RECURSIVE PartitionRanked(_, _, _, _, _, _, _)
PartitionRanked(ranked, i, hist, seen, filtered, leftovers, lim) ==
    IF i > Len(ranked) \/ Len(filtered) >= lim
    THEN [seen |-> seen, filtered |-> filtered, leftovers |-> leftovers]
    ELSE LET t == ranked[i]
         IN  IF t.id = NoId \/ t.id \in seen
             THEN PartitionRanked(ranked, i + 1, hist, seen, filtered, leftovers, lim)
             ELSE IF t.id \in hist
             THEN PartitionRanked(ranked, i + 1, hist, seen \cup {t.id}, filtered,
                                  Append(leftovers, t), lim)
             ELSE PartitionRanked(ranked, i + 1, hist, seen \cup {t.id},
                                  Append(filtered, t), leftovers, lim)

\* second loop: supplements that are neither seen nor served
RECURSIVE AddSupplements(_, _, _, _, _, _)
AddSupplements(supp, i, hist, seen, filtered, lim) ==
    IF i > Len(supp) \/ Len(filtered) >= lim THEN filtered
    ELSE LET t == supp[i]
         IN  IF t.id = NoId \/ t.id \in seen \/ t.id \in hist
             THEN AddSupplements(supp, i + 1, hist, seen, filtered, lim)
             ELSE AddSupplements(supp, i + 1, hist, seen \cup {t.id}, Append(filtered, t), lim)

\* third loop: previously served tracks, as the last resort
\* a third loop that never gives a served track back
NoLeftovers(leftovers, i, filtered, lim) == filtered

RECURSIVE AddLeftovers(_, _, _, _)
AddLeftovers(leftovers, i, filtered, lim) ==
    IF i > Len(leftovers) \/ Len(filtered) >= lim THEN filtered
    ELSE LET t == leftovers[i]
         IN  IF t.id = NoId \/ t.id \in {filtered[j].id : j \in 1..Len(filtered)}
             THEN AddLeftovers(leftovers, i + 1, filtered, lim)
             ELSE AddLeftovers(leftovers, i + 1, Append(filtered, t), lim)

\* line 790: the history filter asks the search-term path for supplements
HistoryAsks(ranked, termResults, histIds, lim) ==
    /\ ranked # <<>>
    /\ Len(PartitionRanked(ranked, 1, histIds, {}, <<>>, <<>>, lim).filtered) < lim
    /\ termResults # <<>>

\* the supplements _apply_history_filter gets (empty when it asks for none)
HistorySupplements(ranked, basePool, termResults, histIds, lim) ==
    IF HistoryAsks(ranked, termResults, histIds, lim)
    THEN AugmentFromSearchTerms(termResults, basePool \o ranked, Max(lim * 2, MinBackfill))
    ELSE <<>>

\* a filter that puts the served tracks in front of the supplements
HistoryFilterServedFirst(ranked, basePool, termResults, histIds, lim) ==
    IF ranked = <<>> THEN <<>>
    ELSE LET p  == PartitionRanked(ranked, 1, histIds, {}, <<>>, <<>>, lim)
             s  == HistorySupplements(ranked, basePool, termResults, histIds, lim)
             f2 == IF Len(p.filtered) < lim
                   THEN AddLeftovers(p.leftovers, 1, p.filtered, lim)
                   ELSE p.filtered
             f3 == IF Len(p.filtered) < lim /\ termResults # <<>>
                   THEN AddSupplements(s, 1, histIds, p.seen, f2, lim)
                   ELSE f2
         IN  Take(f3, lim)

\* a filter that falls back on served tracks before it tries the supplements
HistoryFilterLeftoversFirst(ranked, basePool, termResults, histIds, lim) ==
    IF ranked = <<>> THEN <<>>
    ELSE LET p  == PartitionRanked(ranked, 1, histIds, {}, <<>>, <<>>, lim)
             f3 == IF Len(p.filtered) < lim
                   THEN AddLeftovers(p.leftovers, 1, p.filtered, lim)
                   ELSE p.filtered
         IN  Take(f3, lim)

\* lines 762-817: _apply_history_filter
ApplyHistoryFilter(ranked, basePool, termResults, histIds, lim) ==
    IF ranked = <<>> THEN <<>>
    ELSE LET p  == PartitionRanked(ranked, 1, histIds, {}, <<>>, <<>>, lim)
             s  == HistorySupplements(ranked, basePool, termResults, histIds, lim)
             f2 == IF Len(p.filtered) < lim /\ termResults # <<>>
                   THEN AddSupplements(s, 1, histIds, p.seen, p.filtered, lim)
                   ELSE p.filtered
             f3 == IF Len(f2) < lim THEN AddLeftovers(p.leftovers, 1, f2, lim) ELSE f2
         IN  Take(f3, lim)

----------------------------------------------------------------------------
(* _remember_tracks *)

RECURSIVE Truthy(_)
Truthy(ids) ==
    IF ids = <<>> THEN <<>>
    ELSE (IF ids[1] # NoId THEN <<ids[1]>> ELSE <<>>) \o Truthy(Tail(ids))

\* a history that is never written
RememberNothing(hist, ids) == hist

\* a history that drops the newest ids when it is full
RememberOldest(hist, ids) ==
    IF ids = <<>> THEN hist
    ELSE LET h == hist \o Truthy(ids)
         IN  IF Len(h) > HistoryMax THEN SubSeq(h, 1, HistoryMax) ELSE h

RememberTracks(hist, ids) ==
    IF ids = <<>> THEN hist
    ELSE LET h == hist \o Truthy(ids)
         IN  IF Len(h) > HistoryMax THEN SubSeq(h, Len(h) - HistoryMax + 1, Len(h)) ELSE h

----------------------------------------------------------------------------
(* The catalog client (consumed capability interface).  A fault makes every *)
(* call of one capability raise during the request.                         *)

Capabilities == {"search_artists_by_genre", "resolve_artist_ids", "get_recommendations",
                 "search_tracks_by_label", "search_tracks_raw", "get_audio_features",
                 "get_artist_top_tracks"}

NoFault == [cap |-> "none", kind |-> "none"]

Faulty(fault, cap) == fault.cap = cap

\* what reaches the caller when an unguarded call raises
ErrOf(fault) == IF fault.kind = "auth" THEN "SpotifyAuthError" ELSE "CatalogError"

AllowedGenres == {"pop"}

\* normalize_genres: validated against the allow-list, at most 5
NormalizeGenres(inferred) ==
    Take(SelectSeq(inferred, LAMBDA g : NormText(g) \in AllowedGenres), 5)

\* get_audio_features(ids): the map is non-empty iff the catalog knows a requested track
FeatOf(cat, t) == IF cat.features /\ t.id # NoId THEN t.energy ELSE -1

FeaturesKnown(cat, tracks) == \E i \in 1..Len(tracks) : FeatOf(cat, tracks[i]) >= 0

----------------------------------------------------------------------------
(* recommend(): input handling *)

\* a validation that takes a missing target_features for an empty dict
EffectiveTargetDefaulting(req) ==
    IF req.tf = "absent" THEN "dict" ELSE req.tf

\* a limit that is one more than asked for
LimitPlusOne(req) == (IF req.limit = 0 THEN DefaultLimit ELSE req.limit) + 1

\* lines 310-316: the kind of target_features after the defaults are applied
EffectiveTarget(req) ==
    LET t1 == IF req.tf = "absent" /\ req.profile # "absent" THEN req.profile ELSE req.tf
    IN  IF t1 = "absent" /\ req.ranges = "dict" THEN "dict" ELSE t1

ValidInput(req) == EffectiveTarget(req) = "dict"

\* line 322: limit = limit or self._default_limit (0 stands for None)
LimitOf(req) == IF req.limit = 0 THEN DefaultLimit ELSE req.limit

\* one history key for every caller
UserKeyShared(req) == "__default__"

\* line 331: user_key = user_token or "__default__" ("" stands for None or "")
UserKey(req) == IF req.token = "" THEN "__default__" ELSE req.token

\* lines 333-345: cleaned genres, first of each lowercased spelling
RECURSIVE InferredFrom(_, _, _, _)
InferredFrom(genres, i, seen, acc) ==
    IF i > Len(genres) THEN acc
    ELSE IF genres[i] = "" \/ NormText(genres[i]) \in seen
         THEN InferredFrom(genres, i + 1, seen, acc)
         ELSE InferredFrom(genres, i + 1, seen \cup {NormText(genres[i])}, Append(acc, genres[i]))

InferredGenres(genres) == InferredFrom(genres, 1, {}, <<>>)

\* _collect_search_terms
RECURSIVE TermsFrom(_, _, _, _)
TermsFrom(src, i, seen, acc) ==
    IF i > Len(src) THEN acc
    ELSE IF NormText(src[i]) = "" \/ NormText(src[i]) \in seen
         THEN TermsFrom(src, i + 1, seen, acc)
         ELSE TermsFrom(src, i + 1, seen \cup {NormText(src[i])}, Append(acc, NormText(src[i])))

CollectSearchTerms(normalized, inferred) ==
    LET a == TermsFrom(normalized, 1, {}, <<>>)
        b == IF a = <<>> THEN TermsFrom(inferred, 1, {}, <<>>) ELSE a
    IN  Take(b, 6)

----------------------------------------------------------------------------
(* recommend(), lines 355-377: anchor artists for a genre-only request *)

RECURSIVE UniqueAnchors(_, _, _, _)
UniqueAnchors(anchors, i, seen, acc) ==
    IF i > Len(anchors) THEN acc
    ELSE IF anchors[i].id # NoId /\ anchors[i].id \notin seen
         THEN UniqueAnchors(anchors, i + 1, seen \cup {anchors[i].id}, Append(acc, anchors[i]))
         ELSE UniqueAnchors(anchors, i + 1, seen, acc)

RECURSIVE Repeat(_, _)
Repeat(s, n) == IF n <= 0 THEN <<>> ELSE s \o Repeat(s, n - 1)

\* a search that asks for every validated genre
AnchorQueriesAll(normalized) == normalized

\* line 358: `for genre in normalized_seed_genres[:3]`
AnchorQueries(normalized) == Take(normalized, 3)

\* lines 357-362: the artists of the genre searches that did not raise, in query order
RECURSIVE AnchorsFound(_, _, _, _)
AnchorsFound(byGenre, failing, queries, i) ==
    IF i > Len(queries) THEN <<>>
    ELSE (IF queries[i] \in failing THEN <<>> ELSE byGenre[queries[i]])
         \o AnchorsFound(byGenre, failing, queries, i + 1)

\* lines 363-373: one artist per id, sorted by (followers, popularity), descending, first 5
AnchorArtists(found) ==
    LET unique == UniqueAnchors(found, 1, {}, <<>>)
    IN  Take(TracksOf(SortByScore(
            [i \in 1..Len(unique) |->
                [score |-> unique[i].followers * 101 + unique[i].popularity,
                 track |-> unique[i]]])), MaxSeeds)

\* lines 355-377: the anchor search of a request with the cleaned artist names
\* seeds and the validated genres normalized
AnchorSearch(seeds, normalized, byGenre, failing) ==
    LET ran     == seeds = <<>> /\ normalized # <<>>
        queries == IF ran THEN AnchorQueries(normalized) ELSE <<>>
        artists == AnchorArtists(AnchorsFound(byGenre, failing, queries, 1))
    IN  [ran     |-> ran,
         queries |-> queries,
         artists |-> artists,
         names   |-> IF artists # <<>> THEN [i \in 1..Len(artists) |-> artists[i].name]
                     ELSE seeds]

\* the names of the anchor artists when every genre search answers cat.anchors
AnchorNames(cat, fault, normalized) ==
    LET search == AnchorSearch(<<>>, normalized, [g \in Range(normalized) |-> cat.anchors],
                               IF Faulty(fault, "search_artists_by_genre")
                               THEN Range(normalized) ELSE {})
    IN  [i \in 1..Len(search.artists) |-> search.artists[i].name]

----------------------------------------------------------------------------
(* recommend(), lines 422-456: the pool when the recommendation call gave   *)
(* no track with popularity >= 40.                                          *)

HasId(t) == t.id # NoId

\* a genre search that does not look at what the label search collected
GenreSearchedAlways(labelPool, normalized) == normalized # <<>>

\* line 437: `if not pool:` before the loop over normalized_seed_genres[:3]
GenreSearched(labelPool, normalized) == labelPool = <<>> /\ normalized # <<>>

FallbackPool(cat, fault, normalized, termResults, lim) ==
    LET labelPool == IF Faulty(fault, "search_tracks_by_label") THEN <<>>
                     ELSE Repeat(cat.labelTracks, Len(Take(cat.labels, 4)))
        genrePool == labelPool \o
                     (IF GenreSearched(labelPool, normalized) /\ ~Faulty(fault, "search_tracks_raw")
                      THEN Repeat(cat.search, Len(Take(normalized, 3))) ELSE <<>>)
        pool      == SelectSeq(genrePool, HasId)
        best      == Take(SortByItemScore(pool), lim)
        augmented == AugmentFromSearchTerms(termResults, <<>>, lim)
        calls     == (IF cat.labels # <<>> THEN {"search_tracks_by_label"} ELSE {})
                     \cup (IF GenreSearched(labelPool, normalized)
                           THEN {"search_tracks_raw"} ELSE {})
                     \cup (IF best = <<>> /\ termResults # <<>>
                           THEN {"search_tracks_raw"} ELSE {})
    IN  [calls  |-> calls,
         tracks |-> IF best # <<>> THEN best
                    ELSE IF augmented # <<>> THEN augmented
                    ELSE cat.rec,
         steps  |-> (IF cat.labels # <<>> THEN {"label"} ELSE {})
                    \cup (IF GenreSearched(labelPool, normalized) THEN {"genre"} ELSE {})
                    \cup (IF best = <<>> /\ termResults # <<>> THEN {"terms"} ELSE {}),
         labelPool |-> labelPool,
         usable |-> pool]

\* lines 506-513: popularity floors 55, 50, 45 over the pool
StageOf(raw, lim) ==
    IF raw = <<>> THEN <<>>
    ELSE LET s1 == ApplyFilters(raw, Floor1)
             s2 == IF Len(s1) < lim THEN ApplyFilters(raw, Floor2) ELSE s1
         IN  IF Len(s2) < lim THEN ApplyFilters(raw, Floor3) ELSE s2

\* lines 519-526: feat_map stays empty, so every distance is 1e9
StageRank(stage, lim) ==
    Take(TracksOf(SortByScore(
        [i \in 1..Len(stage) |->
            [score |-> (0 - MaxDistance) + stage[i].pop * 500, track |-> stage[i]]])), lim)

\* lines 528-547: search supplements and one refill, filtered at floor 40
Supplemented(raw, termResults, lim) ==
    IF Len(raw) >= lim THEN raw
    ELSE LET supplements == AugmentFromSearchTerms(termResults, raw, lim - Len(raw))
         IN  IF supplements = <<>> THEN raw
             ELSE LET r1 == ApplyFilters(raw \o supplements, SupplementFloor)
                      refill == AugmentFromSearchTerms(termResults, r1, lim - Len(r1))
                  IN  IF Len(r1) < lim /\ refill # <<>>
                      THEN ApplyFilters(r1 \o refill, SupplementFloor)
                      ELSE r1

\* lines 570-579: unseen top tracks until the pool reaches limit
RECURSIVE TopExtra(_, _, _, _, _)
TopExtra(fallback, i, seen, extra, room) ==
    IF i > Len(fallback) \/ Len(extra) >= room THEN extra
    ELSE LET t == fallback[i]
         IN  IF t.id = NoId \/ t.id \in seen
             THEN TopExtra(fallback, i + 1, seen, extra, room)
             ELSE TopExtra(fallback, i + 1, seen \cup {t.id}, Append(extra, t), room)

\* lines 549-563: tracks with an artist among the seed names, when there are any
OverlapFiltered(raw, seedLower) ==
    LET overlap == SelectSeq(raw, LAMBDA t : t.artist # "" /\ Lower(t.artist) \in seedLower)
    IN  IF overlap # <<>> THEN overlap ELSE raw

\* lines 564-595, given that get_artist_top_tracks did not raise
SeedTop(raw, seedLower, seedIds, cat, lim) ==
    LET r1 == OverlapFiltered(raw, seedLower)
        r2 == IF seedIds # <<>> /\ Len(r1) < lim
              THEN r1 \o TopExtra(cat.top, 1, IdSet(r1), <<>>, lim - Len(r1))
              ELSE r1
    IN  IF r2 = <<>> /\ seedIds # <<>> /\ cat.top # <<>> THEN cat.top ELSE r2

\* lines 596-604: supplements from the artist:"name" searches
SeedPool(raw, seedNames, seedIds, cat, fault, lim) ==
    LET seedLower == {Lower(seedNames[i]) : i \in 1..Len(seedNames)}
        r3 == SeedTop(raw, seedLower, seedIds, cat, lim)
        results == IF Faulty(fault, "search_tracks_raw")
                   THEN [i \in 1..Len(seedNames) |-> <<>>]
                   ELSE [i \in 1..Len(seedNames) |-> cat.artistSearch]
    IN  IF Len(r3) < lim
        THEN r3 \o AugmentFromArtistSearch(results, seedLower, r3, lim - Len(r3))
        ELSE r3

\* line 551: seed_lookup = {name.lower(): name}, the last name of a spelling wins
Canonical(seedNames, lower) ==
    seedNames[CHOOSE i \in 1..Len(seedNames) :
                 /\ Lower(seedNames[i]) = lower
                 /\ \A j \in (i + 1)..Len(seedNames) : Lower(seedNames[j]) # lower]

\* lines 556-561 and 580-584: the seed names of the artists of tracks[i..],
\* appended to matched once each
RECURSIVE MatchedIn(_, _, _, _, _)
MatchedIn(tracks, i, seedNames, seedLower, matched) ==
    IF i > Len(tracks) THEN matched
    ELSE LET t == tracks[i]
             name == IF t.artist # "" /\ Lower(t.artist) \in seedLower
                     THEN Canonical(seedNames, Lower(t.artist)) ELSE ""
         IN  MatchedIn(tracks, i + 1, seedNames, seedLower,
                       IF name = "" \/ name \in Range(matched) THEN matched
                       ELSE Append(matched, name))

\* lines 549-595 and 653-654: matched_seed_artists as the result reports it;
\* the top track that fills the pool leaves the loop before its artists are read
MatchedSeedArtists(raw, seedNames, seedLower, seedIds, cat, lim) ==
    LET r1    == OverlapFiltered(raw, seedLower)
        m1    == MatchedIn(raw, 1, seedNames, seedLower, <<>>)
        room  == lim - Len(r1)
        extra == IF seedIds # <<>> /\ Len(r1) < lim
                 THEN TopExtra(cat.top, 1, IdSet(r1), <<>>, room) ELSE <<>>
        read  == IF Len(extra) >= room /\ extra # <<>>
                 THEN SubSeq(extra, 1, Len(extra) - 1) ELSE extra
        m2    == MatchedIn(read, 1, seedNames, seedLower, m1)
        m3    == IF r1 \o extra = <<>> /\ seedIds # <<>> /\ cat.top # <<>>
                 THEN seedNames ELSE m2
    IN  IF m3 = <<>> THEN seedNames ELSE m3

----------------------------------------------------------------------------
(* Track(...) and RecommendationResult(...): a dataclass constructor raises *)
(* TypeError on a keyword that is no field.                                 *)

\* models.py as in the source tree
TrackFieldsSrc == {"id", "name", "artists", "external_url", "album_image", "audio_features",
                   "popularity", "target_features", "seed_artists", "seed_tracks"}

ResultFieldsSrc == {"features", "seed_genres", "inferred_genres", "tracks", "feature_plan",
                    "requested_artists", "seed_artists", "seed_tracks", "raw_responses"}

\* the records of the design: each track with its one-line descriptor, the result
\* with the raw response
TrackFieldsDoc == TrackFieldsSrc \cup {"summary"}

ResultFieldsDoc == ResultFieldsSrc \cup {"raw_response"}

\* the keywords recommend() passes
TrackKwargs == {"id", "name", "artists", "external_url", "album_image", "audio_features",
                "summary"}

ResultKwargs == {"features", "seed_genres", "seed_artists", "inferred_genres", "tracks",
                 "raw_response"}

TrackAccepted(mdl) ==
    TrackKwargs \subseteq (IF mdl = "src" THEN TrackFieldsSrc ELSE TrackFieldsDoc)

ResultAccepted(mdl) ==
    ResultKwargs \subseteq (IF mdl = "src" THEN ResultFieldsSrc ELSE ResultFieldsDoc)

----------------------------------------------------------------------------
(* recommend(), the whole call.  The value is a record: the outcome (what   *)
(* the caller gets), the capabilities called, the pool handed to ranking,   *)
(* the ranked list, the supplements the history filter asked for, the       *)
(* selection (filtered_ranked_tracks) and the ids to remember.              *)

\* what the pool building and the filter stage did: the strategies that ran, the
\* recommendation tracks of popularity >= 40, what the label search collected, the
\* tracks with an id of the label and genre searches, the pool before and after
\* the filter stage
NoTrace ==
    [steps |-> {}, recTracks |-> <<>>, labelPool |-> <<>>, usable |-> <<>>,
     stageIn |-> <<>>, stageOut |-> <<>>, staged |-> FALSE]

Failed(outcome, calls) ==
    [outcome |-> outcome, calls |-> calls, pool |-> <<>>, ranked |-> <<>>, supp |-> <<>>,
     selection |-> <<>>, remember |-> FALSE, seedIn |-> <<>>, seedArtists |-> <<>>,
     seedIds |-> <<>>, seedGenres |-> <<>>, trace |-> NoTrace]

\* lines 322-384 and 427: limit, genres, seed artists, search terms
SeedsWith(req, fault, cat, inferred, normalized, anchors) ==
    LET seedNames == IF anchors # <<>> THEN anchors ELSE req.seeds
        terms     == CollectSearchTerms(normalized, inferred)
    IN  [lim         |-> LimitOf(req),
         normalized  |-> normalized,
         seedNames   |-> seedNames,
         seedIds     |-> IF seedNames # <<>> /\ cat.resolves THEN seedNames ELSE <<>>,
         seedLower   |-> {Lower(seedNames[i]) : i \in 1..Len(seedNames)},
         termResults |-> [k \in 1..Len(terms) |->
                            IF Faulty(fault, "search_tracks_raw") THEN <<>> ELSE cat.search],
         calls       |-> (IF req.seeds = <<>> /\ normalized # <<>>
                          THEN {"search_artists_by_genre"} ELSE {})
                         \cup (IF seedNames # <<>> THEN {"resolve_artist_ids"} ELSE {})]

SeedsFrom(req, fault, cat, inferred, normalized) ==
    SeedsWith(req, fault, cat, inferred, normalized,
              IF req.seeds = <<>> /\ normalized # <<>>
              THEN AnchorNames(cat, fault, normalized) ELSE <<>>)

Seeds(req, fault, cat) ==
    SeedsFrom(req, fault, cat, InferredGenres(req.genres),
              NormalizeGenres(InferredGenres(req.genres)))

\* lines 422-479: the pool before the filter stage
RawPool(cat, fault, sd, fromRec) ==
    LET fallback == IF fromRec # <<>>
                    THEN [calls |-> {}, tracks |-> fromRec, steps |-> {}, labelPool |-> <<>>,
                          usable |-> <<>>]
                    ELSE FallbackPool(cat, fault, sd.normalized, sd.termResults, sd.lim)
    IN  [calls  |-> fallback.calls,
         tracks |-> IF fallback.tracks = <<>> THEN <<>>
                    ELSE SortByItemScore(Diverse(fallback.tracks)),
         steps  |-> fallback.steps,
         recTracks |-> fromRec,
         labelPool |-> fallback.labelPool,
         usable |-> fallback.usable]

\* lines 606-625: ranking and history filter
Selected(req, cat, histIds, sd, pool, calls) ==
    LET rankLimit == IF pool = <<>> THEN sd.lim
                     ELSE Min(Len(pool), sd.lim + (IF Len(pool) > sd.lim THEN RankMargin ELSE 0))
        ranked    == RankTracks(pool, [i \in 1..Len(pool) |-> FeatOf(cat, pool[i])],
                                req.target, rankLimit)
    IN  [calls     |-> calls \cup (IF HistoryAsks(ranked, sd.termResults, histIds, sd.lim)
                                   THEN {"search_tracks_raw"} ELSE {}),
         pool      |-> pool,
         ranked    |-> ranked,
         supp      |-> HistorySupplements(ranked, pool, sd.termResults, histIds, sd.lim),
         selection |-> ApplyHistoryFilter(ranked, pool, sd.termResults, histIds, sd.lim),
         seedIn    |-> <<>>,
         seedArtists |-> <<>>,
         seedIds   |-> sd.seedIds,
         seedGenres |-> sd.normalized,
         trace     |-> NoTrace]

\* lines 627-663: the Track records, the history update, the result
Returned(mdl, sel) ==
    LET outcome == IF SelectSeq(sel.selection, HasId) # <<>> /\ ~TrackAccepted(mdl)
                   THEN "TypeError"
                   ELSE IF ~ResultAccepted(mdl) THEN "TypeError" ELSE "result"
    IN  [outcome |-> outcome, calls |-> sel.calls, pool |-> sel.pool, ranked |-> sel.ranked,
         supp |-> sel.supp, selection |-> sel.selection,
         remember |-> SelectSeq(sel.selection, HasId) = <<>> \/ TrackAccepted(mdl),
         seedIn |-> sel.seedIn, seedArtists |-> sel.seedArtists,
         seedIds |-> sel.seedIds, seedGenres |-> sel.seedGenres, trace |-> sel.trace]

\* lines 606-609: the audio features of the final pool
Ranked(req, fault, cat, histIds, mdl, sd, pool, calls) ==
    IF IdSet(pool) # {} /\ Faulty(fault, "get_audio_features")
    THEN Failed(ErrOf(fault), calls \cup {"get_audio_features"})
    ELSE Returned(mdl, Selected(req, cat, histIds, sd, pool,
                     calls \cup (IF IdSet(pool) # {} THEN {"get_audio_features"} ELSE {})))

\* lines 549-604, given that get_artist_top_tracks does not raise
SeedBlock(req, fault, cat, histIds, mdl, sd, raw3, calls) ==
    Ranked(req, fault, cat, histIds, mdl, sd,
           SeedPool(raw3, sd.seedNames, sd.seedIds, cat, fault, sd.lim),
           calls \cup (IF Len(SeedTop(raw3, sd.seedLower, sd.seedIds, cat, sd.lim)) < sd.lim
                       THEN {"search_tracks_raw"} ELSE {}))

\* the result with the pool that entered the seed-artist block and the seed
\* artists the block reports
SeedReport(r, sd, raw3, cat) ==
    [r EXCEPT !.seedIn = raw3,
              !.seedArtists = MatchedSeedArtists(raw3, sd.seedNames, sd.seedLower, sd.seedIds,
                                                 cat, sd.lim)]

\* lines 549-604: the seed-artist block
Seeded(req, fault, cat, histIds, mdl, sd, raw3, calls) ==
    IF sd.seedNames = <<>> THEN Ranked(req, fault, cat, histIds, mdl, sd, raw3, calls)
    ELSE IF sd.seedIds # <<>> /\ Len(OverlapFiltered(raw3, sd.seedLower)) < sd.lim
    THEN IF Faulty(fault, "get_artist_top_tracks")
         THEN Failed(ErrOf(fault), calls \cup {"get_artist_top_tracks"})
         ELSE SeedReport(SeedBlock(req, fault, cat, histIds, mdl, sd, raw3,
                                   calls \cup {"get_artist_top_tracks"}), sd, raw3, cat)
    ELSE SeedReport(SeedBlock(req, fault, cat, histIds, mdl, sd, raw3, calls), sd, raw3, cat)

\* lines 528-547: supplements when the stage left fewer than limit
Supplement(req, fault, cat, histIds, mdl, sd, raw2, calls) ==
    Seeded(req, fault, cat, histIds, mdl, sd, Supplemented(raw2, sd.termResults, sd.lim),
           calls \cup (IF Len(raw2) < sd.lim /\ sd.termResults # <<>>
                       THEN {"search_tracks_raw"} ELSE {}))

\* lines 506-527: raw_tracks after the filter stage
StageOut(raw1, stage, lim) == IF stage = <<>> THEN raw1 ELSE StageRank(stage, lim)

\* lines 506-527: the filter stage; iterating the feature mapping yields its keys,
\* and features.get on a key raises AttributeError
Staged(req, fault, cat, histIds, mdl, sd, raw1, stage, calls) ==
    IF stage = <<>> THEN Supplement(req, fault, cat, histIds, mdl, sd, raw1, calls)
    ELSE IF Faulty(fault, "get_audio_features")
    THEN Failed(ErrOf(fault), calls \cup {"get_audio_features"})
    ELSE IF FeaturesKnown(cat, stage)
    THEN Failed("AttributeError", calls \cup {"get_audio_features"})
    ELSE Supplement(req, fault, cat, histIds, mdl, sd, StageOut(raw1, stage, sd.lim),
                    calls \cup {"get_audio_features"})

Pooled(req, fault, cat, histIds, mdl, sd, raw) ==
    [Staged(req, fault, cat, histIds, mdl, sd, raw.tracks, StageOf(raw.tracks, sd.lim),
            sd.calls \cup {"get_recommendations"} \cup raw.calls)
     EXCEPT !.trace = [steps |-> raw.steps, recTracks |-> raw.recTracks,
                       labelPool |-> raw.labelPool, usable |-> raw.usable,
                       stageIn |-> raw.tracks,
                       stageOut |-> StageOut(raw.tracks, StageOf(raw.tracks, sd.lim), sd.lim),
                       staged |-> TRUE]]

\* lines 379-396: resolve_artist_ids and get_recommendations are called unguarded
Resolved(req, fault, cat, histIds, mdl, sd) ==
    IF sd.seedNames # <<>> /\ Faulty(fault, "resolve_artist_ids")
    THEN Failed(ErrOf(fault), sd.calls)
    ELSE IF Faulty(fault, "get_recommendations")
    THEN Failed(ErrOf(fault), sd.calls \cup {"get_recommendations"})
    ELSE Pooled(req, fault, cat, histIds, mdl, sd,
                RawPool(cat, fault, sd, SelectSeq(cat.rec, LAMBDA t : t.pop >= RecFloor)))

Recommend(req, fault, cat, histIds, mdl) ==
    IF ~ValidInput(req) THEN Failed("ValueError", {})
    ELSE Resolved(req, fault, cat, histIds, mdl, Seeds(req, fault, cat))

----------------------------------------------------------------------------
(* The catalogs and the requests of the model *)

Artist(i, n, f, p) == [id |-> i, name |-> n, followers |-> f, popularity |-> p]

Cat(rec, search, top, feats, resolves, anchors, labels, labelTracks, artistSearch) ==
    [rec |-> rec, search |-> search, top |-> top, features |-> feats, resolves |-> resolves,
     anchors |-> anchors, labels |-> labels, labelTracks |-> labelTracks,
     artistSearch |-> artistSearch]

RecLists ==
    {<<>>, <<T1>>, <<T1, T2>>, <<T1, T3>>, <<T1, T6>>, <<T1, T7>>, <<T4, T4, T7>>, <<T5, T0>>}

SearchLists == {<<>>, <<T0, T6, T3>>, <<T1, T2, T4>>}

TopLists == {<<>>, <<T1, T2>>, <<T0>>, <<T3, T3, T6>>}

NoAnchors == <<>>

Anchors == <<Artist(8, "B", 5, 50), Artist(9, "A", 5, 70), Artist(8, "B", 5, 50)>>

Catalogs ==
    \* genre and search driven requests
    {Cat(r, s, <<>>, FALSE, TRUE, NoAnchors, <<>>, <<>>, <<>>) :
        r \in RecLists, s \in SearchLists}
    \cup
    \* the same with audio features known
    {Cat(r, s, <<>>, TRUE, TRUE, NoAnchors, <<>>, <<>>, <<>>) :
        r \in {<<T1>>, <<T4, T4, T7>>, <<T5, T0>>}, s \in {<<>>, <<T0, T6, T3>>}}
    \cup
    \* seed artists: top tracks and artist search
    {Cat(r, <<>>, t, FALSE, TRUE, NoAnchors, <<>>, <<>>, a) :
        r \in {<<>>, <<T6>>}, t \in TopLists, a \in {<<>>, <<T3, T6>>}}
    \cup
    {Cat(<<>>, <<>>, <<T1, T2>>, FALSE, FALSE, NoAnchors, <<>>, <<>>, <<T3, T6>>)}
    \cup
    \* label hints and anchor artists
    {Cat(r, <<T0, T6, T3>>, <<T1, T2>>, FALSE, TRUE, Anchors, l, <<T6, T0>>, <<>>) :
        r \in {<<>>, <<T5, T0>>}, l \in {<<>>, <<"L">>}}
    \cup
    \* a label search that finds nothing, or only a track without id
    {Cat(<<T5>>, <<>>, <<>>, FALSE, TRUE, NoAnchors, <<"L">>, <<>>, <<>>),
     Cat(<<>>, <<T1, T2, T4>>, <<>>, FALSE, TRUE, NoAnchors, <<"L">>, <<T0>>, <<>>)}

Req(tf, profile, ranges, target, genres, seeds, limit, token) ==
    [tf |-> tf, profile |-> profile, ranges |-> ranges, target |-> target,
     genres |-> genres, seeds |-> seeds, limit |-> limit, token |-> token]

Requests ==
    {Req("dict", "absent", "absent", 0, g, a, n, "u1") :
        g \in {<<>>, <<"pop">>}, a \in {<<>>, <<"A">>}, n \in 1..MaxLimit}
    \cup
    {Req("dict", "absent", "absent", 10, <<"Pop", "pop", "indie">>, <<>>, 0, ""),
     Req("dict", "absent", "absent", -1, <<"indie">>, <<>>, MaxLimit, ""),
     Req("absent", "dict", "absent", 10, <<>>, <<>>, 1, "u1"),
     Req("absent", "absent", "dict", 0, <<>>, <<>>, 1, "u1")}
    \cup
    \* two and six seed artists
    {Req("dict", "absent", "absent", 0, <<>>, <<"A", "B">>, MaxLimit, "u1"),
     Req("dict", "absent", "absent", 0, <<"pop">>, <<"A", "B", "C", "D", "E", "F">>, 1, "u1")}
    \cup
    \* no usable target-feature mapping
    {Req("absent", "absent", "absent", 0, <<"pop">>, <<"A">>, 1, "u1"),
     Req("list", "dict", "dict", 0, <<"pop">>, <<"A">>, 1, "u1"),
     Req("absent", "list", "dict", 0, <<"pop">>, <<"A">>, 1, "u1")}

Faults == {[cap |-> c, kind |-> k] : c \in Capabilities, k \in {"transient", "auth"}}

FaultyRequests == {Req("dict", "absent", "absent", 0, <<"pop">>, <<"A">>, MaxLimit, "u1")}

Calls == (Requests \X {NoFault}) \cup (FaultyRequests \X Faults)

----------------------------------------------------------------------------
(* State machine *)

NoCall ==
    [op |-> "none", req |-> Req("absent", "absent", "absent", 0, <<>>, <<>>, 0, ""),
     fault |-> NoFault, key |-> "__default__", limit |-> 0, histBefore |-> <<>>,
     outcome |-> "none", calls |-> {}, pool |-> <<>>, ranked |-> <<>>, supp |-> <<>>,
     selection |-> <<>>, result |-> <<>>, repeat |-> FALSE, prevResult |-> <<>>,
     seedIn |-> <<>>, seedArtists |-> <<>>, seedIds |-> <<>>, seedGenres |-> <<>>,
     trace |-> NoTrace]

\* no helper is called on its own
NoFn == [op |-> "none"]

\* the request threads of the server, all of them idle
Threads == {"t1", "t2"}

Idle == [at |-> "idle"]

NoFlight == [t \in Threads |-> Idle]

InitWith(mdl) ==
    /\ history = [k \in Keys |-> <<>>]
    /\ catalog \in Catalogs
    /\ models = mdl
    /\ last = NoCall
    /\ served = [k \in Keys |-> <<>>]
    /\ ncalls = 0
    /\ fn = NoFn
    /\ inflight = NoFlight

\* the service linked with models.py of the source tree
Init == InitWith("src")

\* the service linked with the documented records
InitDoc == InitWith("documented")

\* one call of recommend(), from the argument check to the return or the exception
DoRecommend(req, fault) ==
    /\ ncalls < MaxCalls
    /\ \E r \in {Recommend(req, fault, catalog, Range(history[UserKey(req)]), models)} :
       LET key == UserKey(req)
           ids == Ids(SelectSeq(r.selection, HasId))
       IN  /\ history' = IF r.remember
                         THEN [history EXCEPT ![key] = RememberTracks(@, ids)]
                         ELSE history
           /\ served' = IF r.remember
                        THEN [served EXCEPT ![key] = @ \o Truthy(ids)]
                        ELSE served
           /\ last' = [op |-> "recommend", req |-> req, fault |-> fault, key |-> key,
                       limit |-> LimitOf(req), histBefore |-> history[key],
                       outcome |-> r.outcome, calls |-> r.calls, pool |-> r.pool,
                       ranked |-> r.ranked, supp |-> r.supp, selection |-> r.selection,
                       result |-> IF r.outcome = "result" THEN ids ELSE <<>>,
                       repeat |-> /\ last.op = "recommend" /\ last.outcome = "result"
                                  /\ last.req = req /\ last.fault = fault,
                       prevResult |-> last.result,
                       seedIn |-> r.seedIn, seedArtists |-> r.seedArtists,
                       seedIds |-> r.seedIds, seedGenres |-> r.seedGenres,
                       trace |-> r.trace]
    /\ ncalls' = ncalls + 1
    /\ UNCHANGED <<catalog, models, fn, inflight>>

Next == \E c \in Calls : DoRecommend(c[1], c[2])

Spec == Init /\ [][Next]_vars

SpecDoc == InitDoc /\ [][Next]_vars

----------------------------------------------------------------------------
(* The history buffer with long histories: _remember_tracks driven          *)
(* directly with any id list, next to recommend().                          *)

Batch(n, o) == [i \in 1..n |-> (i + o) % 4]

Batches == {Batch(n, o) : n \in {0, 2, MaxBatch - 1, MaxBatch}, o \in 0..1}

DoRemember(key, ids) ==
    /\ ncalls < MaxHistoryCalls
    /\ history' = [history EXCEPT ![key] = RememberTracks(@, ids)]
    /\ served' = [served EXCEPT ![key] = IF ids = <<>> THEN @ ELSE @ \o Truthy(ids)]
    /\ last' = [NoCall EXCEPT !.op = "remember", !.key = key, !.histBefore = history[key],
                              !.result = ids]
    /\ ncalls' = ncalls + 1
    /\ UNCHANGED <<catalog, models, fn, inflight>>

HistoryCalls ==
    {<<Req("dict", "absent", "absent", 0, g, <<>>, MaxLimit, t), NoFault>> :
        g \in {<<>>, <<"pop">>}, t \in {"", "u1"}}
    \cup
    \* no usable target-feature mapping
    {<<Req(tf, "absent", r, 0, <<"pop">>, <<"A">>, 1, "u1"), NoFault>> :
        tf \in {"absent", "list"}, r \in {"absent", "list"}}

InitHistory ==
    /\ history = [k \in Keys |-> <<>>]
    /\ catalog = Cat(<<T1, T6>>, <<T0, T6, T3>>, <<>>, FALSE, TRUE, NoAnchors, <<>>, <<>>, <<>>)
    /\ models = "documented"
    /\ last = NoCall
    /\ served = [k \in Keys |-> <<>>]
    /\ ncalls = 0
    /\ fn = NoFn
    /\ inflight = NoFlight

NextHistory ==
    \/ \E key \in Keys, ids \in Batches : DoRemember(key, ids)
    \/ \E c \in HistoryCalls : ncalls < MaxHistoryCalls /\ DoRecommend(c[1], c[2])

SpecHistory == InitHistory /\ [][NextHistory]_vars

----------------------------------------------------------------------------
(* Properties of recommend() and of the history                             *)

\* the last step was a recommend() call that returned a result
Done == last.op = "recommend" /\ last.outcome = "result"

\* the limit the last call asked for, the default when it passed none
AskedLimit == IF last.req.limit = 0 THEN DefaultLimit ELSE last.req.limit

\* ids never served to the user among the ranked candidates and the supplements
FreshIds == (IdSet(last.ranked) \cup IdSet(last.supp)) \ Range(last.histBefore)

\* ids of the result that had been served to the user before the call
Reserved == Range(last.result) \cap Range(last.histBefore)

LastN(s, n) == IF Len(s) > n THEN SubSeq(s, Len(s) - n + 1, Len(s)) ELSE s

C6_RecentHistory ==
    \A k \in Keys : history[k] = LastN(served[k], HistoryMax)

\* a user who was served more than 200 ids
C6_Witness ==
    \E k \in Keys : Len(served[k]) > HistoryMax /\ Len(history[k]) = HistoryMax

Supplied ==
    (IF "get_recommendations" \in last.calls THEN Range(catalog.rec) ELSE {})
    \cup (IF "search_tracks_raw" \in last.calls /\ last.req.seeds = <<>>
          THEN Range(catalog.search) ELSE {})
    \cup (IF "search_tracks_by_label" \in last.calls THEN Range(catalog.labelTracks) ELSE {})
    \cup (IF "get_artist_top_tracks" \in last.calls THEN Range(catalog.top) ELSE {})

\* supplied tracks with an id and the lowest popularity floor
Eligible == {t \in Supplied : t.id # NoId /\ t.pop >= SupplementFloor}

\* n eligible tracks, distinct by id and by (name, lead artist), were supplied
EnoughEligible(n) ==
    \E S \in SUBSET Eligible :
        /\ Cardinality(S) = n
        /\ \A a, b \in S : a # b => (a.id # b.id /\ PairOf(a) # PairOf(b))

C9_AlwaysResult ==
    (last.op = "recommend" /\ last.req.tf = "dict" /\ last.fault.kind # "auth")
        => last.outcome = "result"

\* the last call had no usable target-feature mapping
NoMapping ==
    /\ last.op = "recommend"
    /\ last.req.tf # "dict"
    /\ last.req.profile = "absent"
    /\ last.req.ranges # "dict"

\* C10: a call with no usable target-feature mapping fails with an input
\* error before any catalog call and leaves every user's history as it was.
C10_InputError ==
    [][NoMapping' => /\ last'.outcome = "ValueError"
                     /\ last'.calls = {}
                     /\ history' = history]_vars

\* such a call, made after tracks had been served
C10_Witness ==
    /\ NoMapping
    /\ last.outcome = "ValueError"
    /\ \E k \in Keys : history[k] # <<>>

\* C11: an authentication failure raised by a catalog call made during
\* recommend() reaches the caller as an authentication error; it is never
\* swallowed.
C11_AuthPropagates ==
    (last.op = "recommend" /\ last.fault.kind = "auth" /\ last.fault.cap \in last.calls)
        => last.outcome = "SpotifyAuthError"

\* seed artists were supplied and resolved, and no track of the pool that
\* entered the seed-artist block has an artist among them
SeedMiss ==
    /\ last.op = "recommend"
    /\ last.outcome = "result"
    /\ last.req.seeds # <<>>
    /\ catalog.resolves
    /\ \A i \in 1..Len(last.seedIn) :
          \/ last.seedIn[i].artist = ""
          \/ Lower(last.seedIn[i].artist)
                \notin {Lower(last.req.seeds[k]) : k \in 1..Len(last.req.seeds)}

----------------------------------------------------------------------------
(* _normalize_target_features.  Numbers are in hundredths (0.5 is 50).  A   *)
(* value is a number, a text that float() parses, a text it does not        *)
(* parse, None (also: key absent), or an int too large for a float.         *)

Num(v)  == [k |-> "num", v |-> v]
Text(v) == [k |-> "text", v |-> v]
None    == [k |-> "none", v |-> 0]
Junk    == [k |-> "junk", v |-> 0]
Huge    == [k |-> "huge", v |-> 0]
Raised  == [k |-> "raise", v |-> 0]

\* lines 69-75, _parse_num: float(value); TypeError and ValueError give None,
\* the OverflowError of an int beyond the float range is not caught
ParseNum(val) ==
    CASE val.k = "num"  -> Num(val.v)
      [] val.k = "text" -> Num(val.v)
      [] val.k = "huge" -> Raised
      [] OTHER          -> None

\* payload.get("target") or payload.get("value") or ... : a falsy first value
\* gives the last operand, the missing key's None
OrChain(val) == IF val.k = "none" \/ (val.k = "num" /\ val.v = 0) THEN None ELSE val

\* payloads: a scalar, an object {min, max, target, spread}, a list or tuple
Absent == [kind |-> "absent", n |-> 0, a |-> None, b |-> None, c |-> None, d |-> None]
Scalar(v) == [kind |-> "scalar", n |-> 0, a |-> v, b |-> None, c |-> None, d |-> None]
Object(lo, hi, target, spread) ==
    [kind |-> "dict", n |-> 0, a |-> lo, b |-> hi, c |-> target, d |-> spread]
ListOf(n, x, y, z) == [kind |-> "list", n |-> n, a |-> x, b |-> y, c |-> z, d |-> None]

NoRange == [k |-> "none", min |-> 0, max |-> 0, target |-> 0]
RaisedRange == [k |-> "raise", min |-> 0, max |-> 0, target |-> 0]
RangeOf(lo, hi, target) == [k |-> "range", min |-> lo, max |-> hi, target |-> target]

Mid(lo, hi) == (lo + hi) \div 2

\* lines 112-124: the common tail of _coerce_range
CoerceTail(lo, hi, target) ==
    LET lo1 == IF lo.k = "none" /\ hi.k = "none" /\ target.k = "num" THEN target ELSE lo
        hi1 == IF lo.k = "none" /\ hi.k = "none" /\ target.k = "num" THEN target ELSE hi
        lo2 == IF lo1.k = "none" THEN hi1 ELSE lo1
        hi2 == IF hi1.k = "none" THEN lo2 ELSE hi1
    IN  IF lo2.k = "none" \/ hi2.k = "none" THEN NoRange
        ELSE LET loF == Min(lo2.v, hi2.v)
                 hiF == Max(lo2.v, hi2.v)
             IN  RangeOf(loF, hiF, IF target.k = "num" THEN target.v ELSE Mid(loF, hiF))

\* lines 79-103: an object payload
CoerceObject(lo, hi, target, spread) ==
    IF Raised \in {lo, hi, target, spread} THEN RaisedRange
    ELSE LET both == spread.k = "num" /\ target.k = "num"
             lo1  == IF both /\ lo.k = "none" THEN Num(target.v - spread.v) ELSE lo
             hi1  == IF both /\ hi.k = "none" THEN Num(target.v + spread.v) ELSE hi
             t1   == IF target.k = "none" /\ lo1.k = "num" /\ hi1.k = "num"
                     THEN Num(Mid(lo1.v, hi1.v)) ELSE target
             hi2  == IF t1.k = "none" /\ lo1.k = "num" /\ hi1.k = "none" THEN lo1 ELSE hi1
             t2   == IF t1.k = "none" /\ lo1.k = "num" /\ hi1.k = "none" THEN lo1 ELSE t1
             lo3  == IF t2.k = "none" /\ hi2.k = "num" /\ lo1.k = "none" THEN hi2 ELSE lo1
             t3   == IF t2.k = "none" /\ hi2.k = "num" /\ lo1.k = "none" THEN hi2 ELSE t2
         IN  CoerceTail(lo3, hi2, t3)

\* lines 104-109: a list or tuple of at least two elements
CoerceList(lo, hi, target) ==
    IF Raised \in {lo, hi, target} THEN RaisedRange
    ELSE CoerceTail(lo, hi, IF target.k = "none" /\ lo.k = "num" /\ hi.k = "num"
                            THEN Num(Mid(lo.v, hi.v)) ELSE target)

\* lines 77-124, _coerce_range
CoerceRange(p) ==
    CASE p.kind = "dict" ->
            CoerceObject(ParseNum(p.a), ParseNum(p.b), ParseNum(OrChain(p.c)),
                         ParseNum(OrChain(p.d)))
      [] p.kind = "list" /\ p.n >= 2 ->
            CoerceList(ParseNum(p.a), ParseNum(p.b), IF p.n >= 3 THEN ParseNum(p.c) ELSE None)
      [] OTHER -> NoRange

\* what _normalize_target_features holds for one feature name: its center
\* (None when there is none), its range, and whether an exception left the call
Entry(center, range) == [k |-> "ok", center |-> center, range |-> range]
RaisedEntry == [k |-> "raise", center |-> None, range |-> NoRange]

\* lines 126-134: the name's payload in declared_ranges
AfterDeclared(decl) ==
    IF decl.kind = "absent" THEN Entry(None, NoRange)
    ELSE LET coerced == CoerceRange(decl)
         IN  CASE coerced.k = "raise" -> RaisedEntry
               [] coerced.k = "range" -> Entry(Num(coerced.target), coerced)
               [] OTHER               -> Entry(None, NoRange)

\* a scalar that replaces the range declared for its name
ScalarAsPoint(e, value) ==
    LET num == IF value.kind = "scalar" THEN ParseNum(value.a) ELSE None
    IN  CASE num.k = "raise" -> RaisedEntry
          [] num.k = "none"  -> e
          [] OTHER           -> Entry(num, RangeOf(num.v, num.v, num.v))

\* a scalar that becomes the center and leaves the target of a declared range alone
ScalarKeepingTarget(e, value) ==
    LET num == IF value.kind = "scalar" THEN ParseNum(value.a) ELSE None
    IN  CASE num.k = "raise" -> RaisedEntry
          [] num.k = "none"  -> e
          [] OTHER ->
               IF e.range.k = "none"
               THEN Entry(num, RangeOf(num.v, num.v, num.v))
               ELSE Entry(num, RangeOf(Min(e.range.min, num.v), Max(e.range.max, num.v),
                                       e.range.target))

\* lines 146-157: a raw value that is no range
ScalarInto(e, value) ==
    LET num == IF value.kind = "scalar" THEN ParseNum(value.a) ELSE None
    IN  CASE num.k = "raise" -> RaisedEntry
          [] num.k = "none"  -> e
          [] OTHER ->
               IF e.range.k = "none"
               THEN Entry(num, RangeOf(num.v, num.v, num.v))
               ELSE Entry(num, RangeOf(Min(e.range.min, num.v), Max(e.range.max, num.v), num.v))

\* lines 136-157: the name's value in raw_features
AfterRaw(e, value) ==
    IF e.k = "raise" \/ value.kind = "absent" THEN e
    ELSE LET coerced == IF value.kind \in {"dict", "list"} THEN CoerceRange(value) ELSE NoRange
         IN  CASE coerced.k = "raise" -> RaisedEntry
               [] coerced.k = "range" -> Entry(Num(coerced.target), coerced)
               [] OTHER               -> ScalarInto(e, value)

\* centers that leave their ranges as they are
NotWidened(e) == e

\* lines 159-163: every center widens its range
Widened(e) ==
    IF e.k = "raise" \/ e.center.k = "none" THEN e
    ELSE LET value == e.center.v
             r == IF e.range.k = "none" THEN RangeOf(value, value, value) ELSE e.range
         IN  Entry(e.center, RangeOf(Min(r.min, value), Max(r.max, value), r.target))

\* lines 165-169: a range without center gives its target as center
Centered(e) ==
    IF e.k = "ok" /\ e.center.k = "none" /\ e.range.k = "range"
    THEN Entry(Num(e.range.target), e.range)
    ELSE e

NormalizeName(decl, value) == Centered(Widened(AfterRaw(AfterDeclared(decl), value)))

Names == {"energy", "valence"}

\* lines 60-171, _normalize_target_features: declared and raw map each name to
\* a payload (Absent: the name is no key).  The value is the exception or the
\* pair (centers, ranges), here one entry per name.
NormalizeTargetFeatures(raw, declared) ==
    LET per == [n \in Names |-> NormalizeName(declared[n], raw[n])]
    IN  IF \E n \in Names : per[n].k = "raise"
        THEN [outcome |-> "OverflowError", per |-> per]
        ELSE [outcome |-> "returned", per |-> per]

\* the payloads a feature name is given
ObjectPayloads ==
    {Object(lo, hi, t, sp) :
        lo \in {None, Num(20), Num(80), Junk}, hi \in {None, Num(20), Num(80), Junk},
        t \in {None, Num(0), Num(50), Num(100), Junk, Huge}, sp \in {None, Num(10)}}

ListPayloads ==
    {ListOf(1, Num(20), None, None)}
    \cup {ListOf(2, x, y, None) : x \in {Num(20), Num(80), Junk}, y \in {Num(20), Num(80), Junk}}
    \cup {ListOf(3, x, y, z) : x \in {Num(20), Num(80)}, y \in {Num(20), Num(80)},
                               z \in {None, Num(0), Num(100), Junk}}

ScalarPayloads == {Scalar(v) : v \in {Num(0), Num(30), Text(60), Junk, None, Huge}}

RawPayloads == {Absent} \cup ObjectPayloads \cup ListPayloads \cup ScalarPayloads

DeclaredPayloads ==
    {Absent, Scalar(Num(30)), ListOf(2, Num(20), Num(80), None),
     Object(Num(20), Num(80), None, None), Object(Num(80), Num(20), Num(50), None),
     Object(Num(20), Num(80), Num(0), None), Object(None, None, Num(50), Num(10)),
     Object(Junk, None, None, None)}

NormalizeInputs ==
    {[op |-> "normalize_input",
      raw |-> [n \in Names |-> IF n = "energy" THEN r ELSE v],
      declared |-> [n \in Names |-> IF n = "energy" THEN d ELSE Absent]] :
        r \in RawPayloads, d \in DeclaredPayloads, v \in {Absent, Scalar(Num(30))}}

\* the service at rest while a helper is called on its own
HelperInit(inputs) ==
    /\ history = [k \in Keys |-> <<>>]
    /\ catalog = Cat(<<>>, <<>>, <<>>, FALSE, TRUE, NoAnchors, <<>>, <<>>, <<>>)
    /\ models = "src"
    /\ last = NoCall
    /\ served = [k \in Keys |-> <<>>]
    /\ ncalls = 0
    /\ fn \in inputs
    /\ inflight = NoFlight

DoNormalize ==
    /\ fn.op = "normalize_input"
    /\ fn' = [op |-> "normalize", raw |-> fn.raw, declared |-> fn.declared,
              out |-> NormalizeTargetFeatures(fn.raw, fn.declared)]
    /\ UNCHANGED <<history, catalog, models, last, served, ncalls, inflight>>

InitNormalize == HelperInit(NormalizeInputs)

SpecNormalize == InitNormalize /\ [][DoNormalize]_vars

\* the call of _normalize_target_features returned
Normalized == fn.op = "normalize" /\ fn.out.outcome = "returned"

\* C12: every range _normalize_target_features puts out has
\* min <= target <= max, whatever the payloads in declared_ranges and
\* raw_features (inverted bounds and outside targets included).
C12_TargetWithinRange ==
    Normalized =>
        \A n \in Names :
            LET r == fn.out.per[n].range
            IN  r.k = "range" => (r.min <= r.target /\ r.target <= r.max)

\* inverted bounds and a target above both: the range is widened to the target
C12_Witness ==
    /\ Normalized
    /\ fn.raw["energy"] = Object(Num(80), Num(20), Num(100), None)
    /\ fn.out.per["energy"].range = RangeOf(20, 100, 100)

\* the feature was given as an object with numeric min and max, no spread
PlainObject ==
    /\ Normalized
    /\ fn.raw["energy"].kind = "dict"
    /\ fn.raw["energy"].a.k = "num"
    /\ fn.raw["energy"].b.k = "num"
    /\ fn.raw["energy"].d.k = "none"

\* C13: a range object with min, max and target comes out with min <= max and
\* the supplied target, also for the target 0; the target is the midpoint
\* only when none was supplied.
C13_TargetKept ==
    PlainObject =>
        LET p == fn.raw["energy"]
            r == fn.out.per["energy"].range
        IN  /\ r.k = "range"
            /\ r.min <= r.max
            /\ p.c.k = "num" => r.target = p.c.v
            /\ p.c.k = "none" => r.target = Mid(Min(p.a.v, p.b.v), Max(p.a.v, p.b.v))

\* C14: _normalize_target_features never raises; a feature whose value does
\* not parse is left out and every other feature is still normalized.
C14_NeverRaises ==
    fn.op = "normalize" =>
        /\ fn.out.outcome = "returned"
        /\ (fn.raw["energy"] \in {Scalar(Junk), Scalar(None), ListOf(1, Num(20), None, None)}
              /\ fn.declared["energy"] = Absent)
             => fn.out.per["energy"] = Entry(None, NoRange)
        /\ fn.raw["valence"] = Scalar(Num(30))
             => fn.out.per["valence"] = Entry(Num(30), RangeOf(30, 30, 30))

----------------------------------------------------------------------------
(* _sample_target_features.  Numbers are in units of 1e-7 (0.5 is 5000000), *)
(* so that the width 1e-6 is 10.  A key of a range is a number, None, or    *)
(* missing; random.uniform(lo, hi) is any of a few points of [lo, hi].      *)

SampleEps == 10

Missing == [k |-> "missing", v |-> 0]

\* a range as _sample_target_features reads it: info.get("min"), info.get("max")
Bounds(lo, hi) == [k |-> "range", min |-> lo, max |-> hi]
NoBounds == [k |-> "none", min |-> Missing, max |-> Missing]

Draws == {"lo", "hi", "mid", "near"}

\* a draw that leaves the interval
DrawAbove(lo, hi, u) == hi + 1

\* lines 193 and 215: self._random.uniform(lo_f, hi_f), for hi_f - lo_f > 1e-6
Draw(lo, hi, u) ==
    CASE u = "lo"  -> lo
      [] u = "hi"  -> hi
      [] u = "mid" -> (lo + hi) \div 2
      [] OTHER     -> lo + 1

Sampled(value, drew) == [value |-> value, drew |-> drew]

\* a sampler that draws for every range with two numeric bounds
SampleAlwaysDrawn(lo, hi, exact, u) == Sampled(Num(Draw(Min(lo, hi), Max(lo, hi), u)), TRUE)

\* lines 187-193 and 209-215: swap inverted bounds, then the exact value for a
\* width of at most 1e-6 and a uniform draw otherwise
SampleBetween(lo, hi, exact, u) ==
    LET loF == Min(lo, hi)
        hiF == Max(lo, hi)
    IN  IF hiF - loF <= SampleEps THEN Sampled(exact, FALSE)
        ELSE Sampled(Num(Draw(loF, hiF, u)), TRUE)

\* lines 181-193: a name of centers
SampleCenter(center, range, u) ==
    LET lo == IF range.k = "none" \/ range.min.k = "missing" THEN center ELSE range.min
        hi == IF range.k = "none" \/ range.max.k = "missing" THEN center ELSE range.max
    IN  IF lo.k = "none" \/ hi.k = "none" THEN Sampled(center, FALSE)
        ELSE SampleBetween(lo.v, hi.v, center, u)

\* lines 194-215: a name of ranges that has no center
SampleRange(range, u) ==
    LET lo0 == IF range.min.k = "num" THEN range.min ELSE None
        hi0 == IF range.max.k = "num" THEN range.max ELSE None
        lo  == IF lo0.k = "none" THEN hi0 ELSE lo0
        hi  == IF hi0.k = "none" THEN lo ELSE hi0
    IN  IF lo.k = "none" \/ hi.k = "none" THEN Sampled(None, FALSE)
        ELSE SampleBetween(lo.v, hi.v, Num(Min(lo.v, hi.v)), u)

\* lines 173-217, _sample_target_features, for one name: the value (None: the
\* name is not in the result) and whether the random generator was used
SampleName(center, range, u) ==
    IF center.k = "num" THEN SampleCenter(center, range, u)
    ELSE IF range.k = "range" THEN SampleRange(range, u)
    ELSE Sampled(None, FALSE)

SampleTargetFeatures(centers, ranges, u) ==
    [n \in Names |-> SampleName(centers[n], ranges[n], u[n])]

\* hundredths in units of 1e-7
Fine(v) == v * 100000

\* line 324: the pair (centers, ranges) of _normalize_target_features as the
\* argument of _sample_target_features
SampleArgs(per, normalized) ==
    [op |-> "sample_input", normalized |-> normalized,
     centers |-> [n \in Names |->
                    IF per[n].center.k = "num" THEN Num(Fine(per[n].center.v)) ELSE None],
     ranges |-> [n \in Names |->
                    IF per[n].range.k = "range"
                    THEN Bounds(Num(Fine(per[n].range.min)), Num(Fine(per[n].range.max)))
                    ELSE NoBounds]]

NormalizedArgs ==
    {SampleArgs(NormalizeTargetFeatures(i.raw, i.declared).per, TRUE) :
        i \in {j \in NormalizeInputs : NormalizeTargetFeatures(j.raw, j.declared).outcome = "returned"}}

\* maps of any caller: bounds that are missing, None, equal, 5e-7 or 2e-6
\* apart, inverted, and names with a range and no center
BoundValues == {Missing, None, Num(3000000), Num(3000005), Num(3000020), Num(8000000)}

DirectArgs ==
    {[op |-> "sample_input", normalized |-> FALSE,
      centers |-> [n \in Names |-> IF n = "energy" THEN c ELSE cv],
      ranges |-> [n \in Names |-> IF n = "energy" THEN r ELSE NoBounds]] :
        c \in {None, Num(3000000), Num(3000005), Num(5000000)},
        cv \in {None, Num(5000000)},
        r \in {NoBounds} \cup {Bounds(lo, hi) : lo \in BoundValues, hi \in BoundValues}}

SampleInputs == NormalizedArgs \cup DirectArgs

DoSample ==
    /\ fn.op = "sample_input"
    /\ \E u \in [Names -> Draws] :
          fn' = [op |-> "sample", normalized |-> fn.normalized,
                 centers |-> fn.centers, ranges |-> fn.ranges,
                 out |-> SampleTargetFeatures(fn.centers, fn.ranges, u)]
    /\ UNCHANGED <<history, catalog, models, last, served, ncalls, inflight>>

InitSample == HelperInit(SampleInputs)

SpecSample == InitSample /\ [][DoSample]_vars

\* the range of name n has two numeric bounds at most 1e-6 apart
ZeroWidth(n) ==
    /\ fn.ranges[n].k = "range"
    /\ fn.ranges[n].min.k = "num"
    /\ fn.ranges[n].max.k = "num"
    /\ Max(fn.ranges[n].min.v, fn.ranges[n].max.v)
          - Min(fn.ranges[n].min.v, fn.ranges[n].max.v) <= SampleEps

\* C15: for every feature whose range has zero width (max - min <= 1e-6)
\* _sample_target_features returns exactly the center value (the range's one
\* value when the name has no center), and makes no random draw for it.
C15_ZeroWidthGivesCenter ==
    fn.op = "sample" =>
        \A n \in Names :
            ZeroWidth(n) =>
                /\ ~fn.out[n].drew
                /\ fn.out[n].value =
                      IF fn.centers[n].k = "num" THEN fn.centers[n]
                      ELSE Num(Min(fn.ranges[n].min.v, fn.ranges[n].max.v))

\* a center inside a range of width 5e-7 came back as it was
C15_Witness ==
    /\ fn.op = "sample"
    /\ fn.centers["energy"] = Num(3000005)
    /\ fn.ranges["energy"] = Bounds(Num(3000000), Num(3000005))
    /\ fn.out["energy"] = Sampled(Num(3000005), FALSE)

\* C16: given the centers and ranges produced by normalization,
\* _sample_target_features returns one value for each feature name present in
\* either map and for no other, each within that feature's [min, max].
C16_OneValueWithinRange ==
    (fn.op = "sample" /\ fn.normalized) =>
        \A n \in Names :
            /\ fn.out[n].value.k = "num"
                  <=> (fn.centers[n].k = "num" \/ fn.ranges[n].k = "range")
            /\ fn.out[n].value.k = "num" =>
                  /\ fn.ranges[n].k = "range"
                  /\ fn.ranges[n].min.v <= fn.out[n].value.v
                  /\ fn.out[n].value.v <= fn.ranges[n].max.v

\* a draw strictly inside a normalized range, next to a name with a single value
C16_Witness ==
    /\ fn.op = "sample"
    /\ fn.normalized
    /\ fn.ranges["energy"] = Bounds(Num(2000000), Num(8000000))
    /\ fn.out["energy"] = Sampled(Num(5000000), TRUE)
    /\ fn.out["valence"] = Sampled(Num(3000000), FALSE)

----------------------------------------------------------------------------
(* the artist-diversity pass of recommend on its own *)

MaxPool == 3

\* pools with two tracks of one lead artist, names that differ in case only,
\* tracks without artist name and a track without id
DiversePools ==
    {[op |-> "diverse_input", pool |-> p] :
        p \in UNION {[1..n -> {T0, T1, T2, T3, T4, T6}] : n \in 0..MaxPool}}

DoDiverse ==
    /\ fn.op = "diverse_input"
    /\ fn' = [op |-> "diverse", pool |-> fn.pool, out |-> Diverse(fn.pool)]
    /\ UNCHANGED <<history, catalog, models, last, served, ncalls, inflight>>

InitDiverse == HelperInit(DiversePools)

SpecDiverse == InitDiverse /\ [][DoDiverse]_vars

\* out takes its tracks from pool without changing their order
SubSeqOf(out, pool) ==
    \E f \in [1..Len(out) -> 1..Len(pool)] :
        /\ \A k \in 1..Len(out) : out[k] = pool[f[k]]
        /\ \A k \in 1..Len(out) : \A l \in 1..Len(out) : k < l => f[k] < f[l]

\* C17: one artist-diversity pass keeps at most one track per distinct lead
\* artist name: the first track of each lead artist in pool order is kept and
\* the later ones are dropped; the kept tracks stay in pool order.
C17_OnePerLeadArtist ==
    fn.op = "diverse" =>
        /\ SubSeqOf(fn.out, fn.pool)
        /\ \A i \in 1..Len(fn.pool) :
              fn.pool[i].artist # "" =>
                  LET first == CHOOSE j \in 1..i : /\ fn.pool[j].artist = fn.pool[i].artist
                                                   /\ \A h \in 1..(j - 1) :
                                                         fn.pool[h].artist # fn.pool[i].artist
                      places == {k \in 1..Len(fn.out) : fn.out[k].artist = fn.pool[i].artist}
                  IN  /\ Cardinality(places) = 1
                      /\ \A k \in places : fn.out[k] = fn.pool[first]

\* of three tracks, the second by the lead artist of the first, one was dropped
C17_Witness ==
    /\ fn.op = "diverse"
    /\ fn.pool = <<T1, T3, T6>>
    /\ fn.out = <<T1, T6>>

----------------------------------------------------------------------------
(* build_backend_payload and track_to_payload (models.py), and the JSON     *)
(* text of the payload.  A Python value is a tagged record; JSON text is    *)
(* its sequence of tokens, separators left out.                             *)

MaxTracks == 3

Py(k, s, n, items, keys) == [k |-> k, s |-> s, n |-> n, items |-> items, keys |-> keys]

PyNone         == Py("none", "", 0, <<>>, <<>>)
PyStr(s)       == Py("str", s, 0, <<>>, <<>>)
PyNum(n)       == Py("num", "", n, <<>>, <<>>)
PyList(items)  == Py("list", "", 0, items, <<>>)
PyTuple(items) == Py("tuple", "", 0, items, <<>>)
PyDict(keys, items) == Py("dict", "", 0, items, keys)

\* dict[key]
Get(d, key) == d.items[CHOOSE i \in 1..Len(d.keys) : d.keys[i] = key]

\* bool(value) for the values of a Track
Truth(v) ==
    CASE v.k = "none" -> FALSE
      [] v.k = "str"  -> v.s # ""
      [] v.k = "num"  -> v.n # 0
      [] OTHER        -> v.items # <<>>

Token(t, s, n) == [t |-> t, s |-> s, n |-> n]

\* json.dumps: None is null, a tuple is written as a list, a dict key is a string
RECURSIVE JsonDumps(_)
RECURSIVE DumpItems(_, _)
RECURSIVE DumpPairs(_, _, _)
DumpItems(items, i) ==
    IF i > Len(items) THEN <<>> ELSE JsonDumps(items[i]) \o DumpItems(items, i + 1)

DumpPairs(keys, items, i) ==
    IF i > Len(keys) THEN <<>>
    ELSE <<Token("key", keys[i], 0)>> \o JsonDumps(items[i]) \o DumpPairs(keys, items, i + 1)

JsonDumps(v) ==
    CASE v.k = "none" -> <<Token("null", "", 0)>>
      [] v.k = "str"  -> <<Token("str", v.s, 0)>>
      [] v.k = "num"  -> <<Token("num", "", v.n)>>
      [] v.k = "dict" -> <<Token("{", "", 0)>> \o DumpPairs(v.keys, v.items, 1)
                            \o <<Token("}", "", 0)>>
      [] OTHER        -> <<Token("[", "", 0)>> \o DumpItems(v.items, 1) \o <<Token("]", "", 0)>>

\* json.loads: the value that starts at token i and the position after it
RECURSIVE ParseValue(_, _)
RECURSIVE ParseItems(_, _, _)
RECURSIVE ParsePairs(_, _, _, _)
ParseItems(toks, i, acc) ==
    IF toks[i].t = "]" THEN [v |-> PyList(acc), next |-> i + 1]
    ELSE LET r == ParseValue(toks, i)
         IN  ParseItems(toks, r.next, Append(acc, r.v))

ParsePairs(toks, i, keys, items) ==
    IF toks[i].t = "}" THEN [v |-> PyDict(keys, items), next |-> i + 1]
    ELSE LET r == ParseValue(toks, i + 1)
         IN  ParsePairs(toks, r.next, Append(keys, toks[i].s), Append(items, r.v))

ParseValue(toks, i) ==
    CASE toks[i].t = "null" -> [v |-> PyNone, next |-> i + 1]
      [] toks[i].t = "str"  -> [v |-> PyStr(toks[i].s), next |-> i + 1]
      [] toks[i].t = "num"  -> [v |-> PyNum(toks[i].n), next |-> i + 1]
      [] toks[i].t = "["    -> ParseItems(toks, i + 1, <<>>)
      [] OTHER              -> ParsePairs(toks, i + 1, <<>>, <<>>)

JsonLoads(toks) == ParseValue(toks, 1).v

\* models.py lines 9-22: the fields of a Track that reach the payload
Track(id, name, artists, albumImage, popularity, audioFeatures, targetFeatures) ==
    [id |-> id, name |-> name, artists |-> artists, external_url |-> "",
     album_image |-> albumImage, popularity |-> popularity,
     audio_features |-> audioFeatures, target_features |-> targetFeatures]

Energy(n) == PyDict(<<"energy">>, <<PyNum(n)>>)

\* the optional key of track_to_payload, when cond holds
Optional(cond, key, value) == IF cond THEN [keys |-> <<key>>, items |-> <<value>>]
                              ELSE [keys |-> <<>>, items |-> <<>>]

\* models.py lines 43-64, track_to_payload
TrackToPayload(track) ==
    LET pop == Optional(track.popularity.k # "none", "popularity", track.popularity)
        af  == Optional(track.audio_features.k # "none", "audio_features", track.audio_features)
        tf  == Optional(Truth(track.target_features), "target_features", track.target_features)
    IN  PyDict(<<"id", "name", "artists", "url", "album_image">>
                   \o pop.keys \o af.keys \o tf.keys,
               <<PyStr(track.id), PyStr(track.name), track.artists, PyStr(track.external_url),
                 track.album_image>> \o pop.items \o af.items \o tf.items)

\* a payload that lists the tracks last to first
PayloadTracksReversed(tracks) ==
    [i \in 1..Len(tracks) |-> TrackToPayload(tracks[Len(tracks) + 1 - i])]

\* line 888: [track_to_payload(track) for track in result.tracks]
PayloadTracks(tracks) == [i \in 1..Len(tracks) |-> TrackToPayload(tracks[i])]

RECURSIVE SumOf(_, _)
SumOf(values, i) == IF i > Len(values) THEN 0 ELSE values[i].n + SumOf(values, i + 1)

\* lines 891-900: the mean of each feature of the first track with features,
\* over the tracks that have a number for it
FeatureSummary(tracks) ==
    LET withFeatures == SelectSeq([i \in 1..Len(tracks) |-> tracks[i].audio_features], Truth)
        names   == IF withFeatures = <<>> THEN <<>> ELSE withFeatures[1].keys
        numeric == [j \in 1..Len(names) |->
                      LET has  == SelectSeq(withFeatures,
                                            LAMBDA d : \E h \in 1..Len(d.keys) : d.keys[h] = names[j])
                          vals == [h \in 1..Len(has) |-> Get(has[h], names[j])]
                      IN  SelectSeq(vals, LAMBDA v : v.k = "num")]
        kept    == {j \in 1..Len(names) : numeric[j] # <<>>}
        order   == SelectSeq([j \in 1..Len(names) |-> j], LAMBDA j : j \in kept)
    IN  Optional(kept # {}, "audio_features_summary",
                 PyDict([h \in 1..Len(order) |-> names[order[h]]],
                        [h \in 1..Len(order) |->
                            PyNum(SumOf(numeric[order[h]], 1) \div Len(numeric[order[h]]))]))

\* lines 878-902, build_backend_payload
BuildBackendPayload(result) ==
    LET summary == FeatureSummary(result.tracks)
    IN  PyDict(<<"provider", "audio_profile", "inferred_genres", "seed_genres", "seed_artists",
                 "tracks">> \o summary.keys,
               <<PyStr("spotify"), result.features, result.inferred_genres, result.seed_genres,
                 result.seed_artists, PyList(PayloadTracks(result.tracks))>> \o summary.items)

\* tracks as recommend() builds them (no popularity) and as any caller may:
\* a repeated id, no artist, artists as a tuple, empty and absent features,
\* a feature that other tracks do not have
PayloadTrackSet ==
    {Track("1", "Song", PyList(<<PyStr("A")>>), PyStr("img"), PyNone, PyNone, PyDict(<<>>, <<>>)),
     Track("1", "Song", PyList(<<PyStr("A")>>), PyNone, PyNum(50), Energy(30), Energy(40)),
     Track("2", "Tune", PyTuple(<<PyStr("A"), PyStr("B")>>), PyNone, PyNum(60), Energy(10),
           PyDict(<<>>, <<>>)),
     Track("3", "Deep", PyList(<<>>), PyNone, PyNum(0), PyDict(<<>>, <<>>), PyDict(<<>>, <<>>)),
     Track("4", "", PyList(<<PyStr("B")>>), PyStr("img"), PyNone,
           PyDict(<<"energy">>, <<PyNone>>), PyDict(<<>>, <<>>)),
     Track("5", "Wide", PyList(<<PyStr("C")>>), PyNone, PyNone,
           PyDict(<<"energy", "valence">>, <<PyNum(70), PyNum(20)>>), PyDict(<<>>, <<>>))}

PayloadInputs ==
    {[op |-> "payload_input",
      result |-> [features |-> Energy(50), inferred_genres |-> PyList(<<PyStr("Pop")>>),
                  seed_genres |-> PyList(<<PyStr("pop")>>),
                  seed_artists |-> PyList(<<>>), tracks |-> tr]] :
        tr \in UNION {[1..n -> PayloadTrackSet] : n \in 0..MaxTracks}}

\* build_backend_payload, then the payload written as JSON and read back
DoPayload ==
    /\ fn.op = "payload_input"
    /\ fn' = [op |-> "payload", result |-> fn.result,
              out |-> BuildBackendPayload(fn.result),
              loaded |-> JsonLoads(JsonDumps(BuildBackendPayload(fn.result)))]
    /\ UNCHANGED <<history, catalog, models, last, served, ncalls, inflight>>

InitPayload == HelperInit(PayloadInputs)

SpecPayload == InitPayload /\ [][DoPayload]_vars

\* the payload lists one entry per track of the result, with the track's id
\* and name, in the order of result.tracks
SameTracks(payload, tracks) ==
    LET listed == Get(payload, "tracks").items
    IN  /\ Len(listed) = Len(tracks)
        /\ \A i \in 1..Len(tracks) :
              /\ Get(listed[i], "id") = PyStr(tracks[i].id)
              /\ Get(listed[i], "name") = PyStr(tracks[i].name)

\* C20: build_backend_payload(result) lists the tracks in the same order and
\* number as result.tracks, and so does the payload read back from its JSON
\* text.
C20_PayloadKeepsTracks ==
    fn.op = "payload" =>
        /\ SameTracks(fn.out, fn.result.tracks)
        /\ SameTracks(fn.loaded, fn.result.tracks)

\* three tracks, an id twice, came back from JSON in their order, the tuple of
\* artists read back as a list
C20_Witness ==
    /\ fn.op = "payload"
    /\ [i \in 1..Len(fn.result.tracks) |-> fn.result.tracks[i].id] = <<"2", "1", "1">>
    /\ [i \in 1..3 |-> Get(Get(fn.loaded, "tracks").items[i], "id").s] = <<"2", "1", "1">>
    /\ fn.loaded # fn.out

\* dict has the key
HasKey(d, key) == \E i \in 1..Len(d.keys) : d.keys[i] = key

FeatureNames == {"energy", "valence"}

\* the numbers the tracks' audio features hold for the feature, in track order
NumbersOf(tracks, feature) ==
    LET holders == SelectSeq(tracks, LAMBDA t :
                       /\ t.audio_features.k = "dict"
                       /\ HasKey(t.audio_features, feature)
                       /\ Get(t.audio_features, feature).k = "num")
    IN  [i \in 1..Len(holders) |-> Get(holders[i].audio_features, feature)]

\* C21: the audio_features_summary of build_backend_payload has one entry for
\* each feature with a numeric value in the audio features of at least one
\* track of the result, and the entry is the mean of the feature over the
\* tracks that have it.
C21_SummaryOfEveryFeature ==
    fn.op = "payload" =>
        \A f \in FeatureNames :
            LET numbers == NumbersOf(fn.result.tracks, f)
                listed  == /\ HasKey(fn.out, "audio_features_summary")
                           /\ HasKey(Get(fn.out, "audio_features_summary"), f)
            IN  /\ listed <=> numbers # <<>>
                /\ listed => Get(Get(fn.out, "audio_features_summary"), f)
                                 = PyNum(SumOf(numbers, 1) \div Len(numbers))

----------------------------------------------------------------------------
(* Pool building and the filter stage *)

PoolBuilt == last.op = "recommend" /\ last.trace.staged

PoolCapabilities ==
    {"get_recommendations", "search_tracks_by_label", "search_tracks_raw",
     "get_artist_top_tracks"}

\* C23: a transport or availability failure raised by a catalog call of a
\* pool-building strategy (recommendation, label search, genre search, search-term
\* search, seed-artist top tracks) is treated as no results: it does not reach the
\* caller of recommend().
C23_FailuresSwallowed ==
    (/\ last.op = "recommend"
     /\ last.fault.kind = "transient"
     /\ last.fault.cap \in PoolCapabilities
     /\ last.fault.cap \in last.calls)
        => last.outcome # "CatalogError"

\* the survivors of the last floor tried when the floors go 55, 50, 45, 40
FloorChain(raw, lim) ==
    LET s1 == ApplyFilters(raw, Floor1)
        s2 == IF Len(s1) < lim THEN ApplyFilters(raw, Floor2) ELSE s1
        s3 == IF Len(s2) < lim THEN ApplyFilters(raw, Floor3) ELSE s2
    IN  IF Len(s3) < lim THEN ApplyFilters(raw, SupplementFloor) ELSE s3

----------------------------------------------------------------------------
(* _apply_history_filter on its own: ranked lists of up to MaxRanked tracks *)
(* (repeated ids, a track without id), a user history, the tracks the       *)
(* search-term path finds, and a limit.                                     *)

MaxRanked == 3
MaxFilterLimit == 3

FilterInputs ==
    {[op |-> "filter_input", ranked |-> r, terms |-> t, hist |-> h, lim |-> n] :
        r \in UNION {[1..k -> {T0, T1, T3, T6}] : k \in 0..MaxRanked},
        t \in {<<>>, <<<<T0, T6, T3>>>>, <<<<T2, T4>>, <<T7, T4>>>>},
        h \in SUBSET {1, 3, 4},
        n \in 1..MaxFilterLimit}

DoFilter ==
    /\ fn.op = "filter_input"
    /\ fn' = [op |-> "filter", ranked |-> fn.ranked, terms |-> fn.terms, hist |-> fn.hist,
              lim |-> fn.lim,
              asked |-> HistoryAsks(fn.ranked, fn.terms, fn.hist, fn.lim),
              supp |-> HistorySupplements(fn.ranked, fn.ranked, fn.terms, fn.hist, fn.lim),
              out |-> ApplyHistoryFilter(fn.ranked, fn.ranked, fn.terms, fn.hist, fn.lim)]
    /\ UNCHANGED <<history, catalog, models, last, served, ncalls, inflight>>

InitFilter == HelperInit(FilterInputs)

SpecFilter == InitFilter /\ [][DoFilter]_vars

\* the ranked tracks with an id that is not in the history, first of each id, in rank order
FreshRanked(ranked, hist) ==
    LET keep == {i \in 1..Len(ranked) :
                    /\ ranked[i].id # NoId
                    /\ ranked[i].id \notin hist
                    /\ \A j \in 1..(i - 1) : ranked[j].id # ranked[i].id}
        RECURSIVE From(_)
        From(i) == IF i > Len(ranked) THEN <<>>
                   ELSE IF i \in keep THEN <<ranked[i]>> \o From(i + 1) ELSE From(i + 1)
    IN  From(1)

\* C26: the output of _apply_history_filter comes in three groups, in this order:
\* the ranked tracks not in the user's history, in rank order; supplement tracks
\* that are neither seen nor in the history; leftovers, the ranked tracks already
\* served.  Supplements are requested only when the first group has fewer than
\* limit tracks, leftovers are used only when the first two groups together have
\* fewer than limit.
C26_ThreeGroups ==
    fn.op = "filter" =>
        LET fresh == FreshRanked(fn.ranked, fn.hist)
            a     == Min(Len(fresh), fn.lim)
            out   == fn.out
        IN  /\ Len(out) >= a
            /\ SubSeq(out, 1, a) = Take(fresh, fn.lim)
            /\ fn.asked => Len(fresh) < fn.lim
            /\ \E b \in a..Len(out) :
                  LET second == SubSeq(out, a + 1, b)
                      third  == SubSeq(out, b + 1, Len(out))
                  IN  /\ SubSeqOf(second, fn.supp)
                      /\ NoDup(Ids(second))
                      /\ IdSet(second) \cap (IdSet(fn.ranked) \cup fn.hist) = {}
                      /\ second # <<>> => fn.asked
                      /\ SubSeqOf(third, fn.ranked)
                      /\ NoDup(Ids(third))
                      /\ IdSet(third) \subseteq fn.hist
                      /\ third # <<>> => b < fn.lim

\* a fresh ranked track, then a supplement, then a served one
C26_Witness ==
    /\ fn.op = "filter"
    /\ Len(fn.out) = 3
    /\ fn.out[1].id \notin fn.hist /\ fn.out[1] \in Range(fn.ranked)
    /\ fn.out[2].id \notin fn.hist /\ fn.out[2] \notin Range(fn.ranked)
    /\ fn.out[3].id \in fn.hist

----------------------------------------------------------------------------
(* The history of one user key *)

\* the key the caller's user_token stands for
KeyOfToken(token) == IF token = "" THEN "__default__" ELSE token

----------------------------------------------------------------------------
(* Overlapping calls: the server hands every request to its own thread and  *)
(* all threads share one RecommendationService.  A call reads the user's    *)
(* history in _apply_history_filter and writes it in _remember_tracks; no   *)
(* lock is held in between.                                                 *)

OverlapRequests ==
    {Req("dict", "absent", "absent", 0, g, <<>>, n, t) :
        g \in {<<>>, <<"pop">>}, n \in 1..MaxLimit, t \in {"u1", ""}}

OverlapCatalogs ==
    {Cat(r, s, <<>>, FALSE, TRUE, NoAnchors, <<>>, <<>>, <<>>) :
        r \in RecLists, s \in SearchLists}

\* recommend() up to and including _apply_history_filter (lines 297-625)
Enter(t, req) ==
    /\ inflight[t] = Idle
    /\ \E r \in {Recommend(req, NoFault, catalog, Range(history[UserKey(req)]), models)} :
         inflight' =
            [u \in Threads |->
                IF u = t
                THEN [at |-> "filtered",
                      overlapped |-> \E v \in Threads : inflight[v].at = "filtered",
                      remember |-> r.remember,
                      ids |-> Ids(SelectSeq(r.selection, HasId)),
                      call |-> [NoCall EXCEPT
                                  !.op = "recommend", !.req = req, !.key = UserKey(req),
                                  !.limit = LimitOf(req),
                                  !.histBefore = history[UserKey(req)],
                                  !.outcome = r.outcome, !.calls = r.calls, !.pool = r.pool,
                                  !.ranked = r.ranked, !.supp = r.supp,
                                  !.selection = r.selection,
                                  !.result = IF r.outcome = "result"
                                             THEN Ids(SelectSeq(r.selection, HasId))
                                             ELSE <<>>,
                                  !.seedIn = r.seedIn, !.seedArtists = r.seedArtists,
                                  !.seedIds = r.seedIds, !.seedGenres = r.seedGenres,
                                  !.trace = r.trace]]
                ELSE IF inflight[u].at = "filtered"
                THEN [inflight[u] EXCEPT !.overlapped = TRUE]
                ELSE inflight[u]]
    /\ UNCHANGED <<history, catalog, models, last, served, ncalls, fn>>

\* the rest of recommend() (lines 627-663): the Track records, _remember_tracks, the return
Record(t) ==
    /\ inflight[t].at = "filtered"
    /\ LET key == inflight[t].call.key
           ids == inflight[t].ids
       IN  /\ history' = IF inflight[t].remember
                         THEN [history EXCEPT ![key] = RememberTracks(@, ids)]
                         ELSE history
           /\ served' = IF inflight[t].remember
                        THEN [served EXCEPT ![key] = @ \o Truthy(ids)]
                        ELSE served
    /\ last' = inflight[t].call
    /\ ncalls' = ncalls + 1
    /\ inflight' = [inflight EXCEPT ![t].at = "done"]
    /\ UNCHANGED <<catalog, models, fn>>

InitOverlap ==
    /\ history = [k \in Keys |-> <<>>]
    /\ catalog \in OverlapCatalogs
    /\ models = "documented"
    /\ last = NoCall
    /\ served = [k \in Keys |-> <<>>]
    /\ ncalls = 0
    /\ fn = NoFn
    /\ inflight = NoFlight

NextOverlap ==
    \/ \E t \in Threads, req \in OverlapRequests : Enter(t, req)
    \/ \E t \in Threads : Record(t)

SpecOverlap == InitOverlap /\ [][NextOverlap]_vars

\* two finished calls for one user key that both returned results
BothReturned(t, u) ==
    /\ t # u
    /\ inflight[t].at = "done" /\ inflight[u].at = "done"
    /\ inflight[t].call.key = inflight[u].call.key
    /\ inflight[t].call.outcome = "result" /\ inflight[u].call.outcome = "result"

\* ids both calls returned that were in the history when neither call read it
ServedTwice(t, u) ==
    (Range(inflight[t].call.result) \cap Range(inflight[u].call.result))
        \ (Range(inflight[t].call.histBefore) \cup Range(inflight[u].call.histBefore))

----------------------------------------------------------------------------
(* The anchor-artist search on its own: up to four validated genres, genre  *)
(* searches that share artists, return an artist without id or raise.       *)

A1 == Artist(1, "A", 9, 50)
A2 == Artist(2, "B", 9, 70)
A3 == Artist(3, "C", 5, 10)
A4 == Artist(4, "C", 7, 10)    \* the name of A3, another id
A5 == Artist(5, "E", 1, 99)
A6 == Artist(6, "F", 8, 0)
A7 == Artist(7, "G", 0, 0)
A8 == Artist(8, "H", 10, 100)  \* the most followed one, found for "folk" only
A0 == Artist(NoId, "Z", 10, 100)

GenreLists ==
    {<<>>, <<"pop">>, <<"pop", "rock">>, <<"pop", "rock", "jazz">>,
     <<"pop", "rock", "jazz", "folk">>, <<"folk", "jazz", "rock", "pop">>}

ArtistsByGenre ==
    {[g \in {"pop", "rock", "jazz", "folk"} |-> <<>>],
     [pop |-> <<A1, A2, A3>>, rock |-> <<A2, A4, A0>>, jazz |-> <<A5, A6, A7>>, folk |-> <<A8>>],
     [pop |-> <<A3, A4>>, rock |-> <<A0>>, jazz |-> <<A3>>, folk |-> <<A8, A2>>]}

AnchorInputs ==
    {[op |-> "anchors_input", seeds |-> s, normalized |-> n, byGenre |-> b, failing |-> f] :
        s \in {<<>>, <<"A">>}, n \in GenreLists, b \in ArtistsByGenre,
        f \in {{}, {"pop"}, {"pop", "rock", "jazz", "folk"}}}

DoAnchors ==
    /\ fn.op = "anchors_input"
    /\ fn' = [op |-> "anchors", seeds |-> fn.seeds, normalized |-> fn.normalized,
              byGenre |-> fn.byGenre, failing |-> fn.failing,
              search |-> AnchorSearch(fn.seeds, fn.normalized, fn.byGenre, fn.failing)]
    /\ UNCHANGED <<history, catalog, models, last, served, ncalls, inflight>>

InitAnchors == HelperInit(AnchorInputs)

SpecAnchors == InitAnchors /\ [][DoAnchors]_vars

\* a comes before b, or ties with it, in descending (followers, popularity) order
NotBelow(a, b) ==
    \/ a.followers > b.followers
    \/ a.followers = b.followers /\ a.popularity >= b.popularity

\* the artists with an id that the searches for the first three genres return
Findable ==
    {a \in UNION {Range(fn.byGenre[fn.normalized[i]]) :
                     i \in {k \in 1..Min(3, Len(fn.normalized)) :
                               fn.normalized[k] \notin fn.failing}} :
        a.id # NoId}

\* C29: the anchor-artist search runs only when the caller supplied no usable
\* artist name and at least one genre was validated; it queries at most the
\* first 3 validated genres and yields at most 5 substitute seed artists, with
\* pairwise distinct ids, the highest by (followers, popularity), descending.
C29_AnchorSearch ==
    fn.op = "anchors" =>
        LET search == fn.search
            chosen == search.artists
        IN  /\ search.ran => fn.seeds = <<>> /\ fn.normalized # <<>>
            /\ ~search.ran => search.queries = <<>> /\ chosen = <<>>
            /\ Len(search.queries) <= 3
            /\ search.queries = SubSeq(fn.normalized, 1, Len(search.queries))
            /\ Len(chosen) <= 5
            /\ NoDup(Ids(chosen))
            /\ Range(chosen) \subseteq Findable
            /\ \A i \in 1..Len(chosen) : \A j \in 1..Len(chosen) :
                   i < j => NotBelow(chosen[i], chosen[j])
            /\ \A a \in Findable : \A i \in 1..Len(chosen) :
                   NotBelow(chosen[i], a) \/ a \in Range(chosen)

\* four validated genres, seven distinct artists found for the first three: five are kept
C29_Witness ==
    /\ fn.op = "anchors"
    /\ Len(fn.normalized) = 4
    /\ fn.search.ran
    /\ Len(fn.search.queries) = 3
    /\ Cardinality(Findable) = 7
    /\ Len(fn.search.artists) = 5

----------------------------------------------------------------------------
(* A feature given as a plain number *)

\* raw_features gives the feature n as an int or a float
PlainNumber(n) ==
    /\ Normalized
    /\ fn.raw[n].kind = "scalar"
    /\ fn.raw[n].a.k = "num"

\* C30: a feature given as a plain number is normalized to the point range
\* min = max = target = that number.
C30_ScalarGivesPoint ==
    \A n \in Names :
        PlainNumber(n) =>
            fn.out.per[n].range = RangeOf(fn.raw[n].a.v, fn.raw[n].a.v, fn.raw[n].a.v)

\* C30 as the code has it: a feature given as a plain number gets that number
\* as center and target; its range is the point range when declared_ranges
\* holds no range for the feature, and otherwise the declared range, widened
\* to include the number.
C30_ScalarPointOrDeclared ==
    \A n \in Names :
        PlainNumber(n) =>
            LET v  == fn.raw[n].a.v
                d  == CoerceRange(fn.declared[n])
                e  == fn.out.per[n]
            IN  /\ e.center = Num(v)
                /\ d.k # "range" => e.range = RangeOf(v, v, v)
                /\ d.k = "range" => e.range = RangeOf(Min(d.min, v), Max(d.max, v), v)

\* the number 0 under a declared range from 20 to 80: the range becomes 0 to 80
C30_Witness ==
    /\ PlainNumber("energy")
    /\ fn.raw["energy"].a.v = 0
    /\ CoerceRange(fn.declared["energy"]).k = "range"
    /\ CoerceRange(fn.declared["energy"]).min = 20
    /\ fn.out.per["energy"].range = RangeOf(0, 80, 0)

----------------------------------------------------------------------------
(* Centers and ranges of the normalizer *)

\* C31: after _normalize_target_features the center map and the range map hold
\* the same feature names, and each feature's center is the target of its range.
C31_CentersMatchRanges ==
    Normalized =>
        \A n \in Names :
            LET e == fn.out.per[n]
            IN  /\ e.center.k = "num" <=> e.range.k = "range"
                /\ e.center.k = "num" => e.center.v = e.range.target

\* a plain number under a declared range with another target: both end at the number
C31_Witness ==
    /\ Normalized
    /\ fn.raw["energy"].kind = "scalar"
    /\ fn.raw["energy"].a = Num(30)
    /\ CoerceRange(fn.declared["energy"]).k = "range"
    /\ CoerceRange(fn.declared["energy"]).target = 50
    /\ fn.out.per["energy"].center = Num(30)
    /\ fn.out.per["energy"].range.target = 30
    /\ fn.out.per["valence"].center.k = "none"

----------------------------------------------------------------------------
(* _augment_from_search_terms on its own: up to MaxTerms terms, each with   *)
(* the tracks its search returns, a list of existing tracks and a limit     *)
(* that may be zero or negative.                                            *)

MaxTerms == 3
MaxAugment == 3

TermAnswers == {<<>>, <<T0, T6, T3>>, <<T1, T2, T4>>, <<T7, T4>>}

AugmentInputs ==
    {[op |-> "augment_input", results |-> r, existing |-> e, lim |-> n] :
        r \in UNION {[1..k -> TermAnswers] : k \in 0..MaxTerms},
        e \in {<<>>, <<T1>>, <<T2, T0>>, <<T6, T4>>},
        n \in (0 - 1)..MaxAugment}

DoAugment ==
    /\ fn.op = "augment_input"
    /\ fn' = [op |-> "augment", results |-> fn.results, existing |-> fn.existing,
              lim |-> fn.lim,
              asked |-> AugmentAsked(fn.results, 1, fn.existing, fn.lim),
              out |-> AugmentFromSearchTerms(fn.results, fn.existing, fn.lim)]
    /\ UNCHANGED <<history, catalog, models, last, served, ncalls, inflight>>

InitAugment == HelperInit(AugmentInputs)

SpecAugment == InitAugment /\ [][DoAugment]_vars

\* C32: _augment_from_search_terms returns at most limit tracks, each with an
\* id, none whose id or normalized (name, lead artist) pair occurs in the
\* existing list or twice in the returned list; it asks no further term once
\* limit tracks are collected, and returns an empty list when limit <= 0 or no
\* term is given.
C32_AugmentBounded ==
    fn.op = "augment" =>
        LET out == fn.out
        IN  /\ Len(out) <= Max(fn.lim, 0)
            /\ \A i \in 1..Len(out) : out[i].id # NoId
            /\ NoDup(Ids(out))
            /\ NoDup([i \in 1..Len(out) |-> PairOf(out[i])])
            /\ IdSet(out) \cap IdSet(fn.existing) = {}
            /\ PairSet(out) \cap PairSet(fn.existing) = {}
            /\ (fn.lim <= 0 \/ fn.results = <<>>) => (out = <<>> /\ fn.asked = 0)
            /\ fn.asked <= Len(fn.results)
            /\ (fn.lim > 0 /\ Len(out) < fn.lim) => fn.asked = Len(fn.results)
            /\ (fn.lim > 0 /\ Len(out) = fn.lim) => out[fn.lim] \in Range(fn.results[fn.asked])

\* the first of three terms fills the list although tracks of it are skipped
\* for the existing ones: the other two terms are not asked
C32_Witness ==
    /\ fn.op = "augment"
    /\ Len(fn.results) = 3
    /\ fn.lim = 2
    /\ Len(fn.out) = 2
    /\ fn.asked = 1
    /\ \E i \in 1..Len(fn.results[1]) :
           fn.results[1][i].id \in IdSet(fn.existing) \/ PairOf(fn.results[1][i]) \in PairSet(fn.existing) \ PairSet(fn.out)

----------------------------------------------------------------------------
(* _feature_distance on feature mappings.  A mapping is a function from the *)
(* names it holds to numbers: tenths for the features in the range 0 to 1,  *)
(* 5 BPM for tempo, dB for loudness, so that every delta the code squares   *)
(* is a number of tenths.                                                   *)

UnitKeys == <<"acousticness", "danceability", "energy", "instrumentalness", "valence">>

NoFeatures == [x \in {} |-> 0]

\* the deltas of the scored features that both mappings hold, in tenths
Deltas(feats, target) ==
    LET unit == [i \in 1..Len(UnitKeys) |->
                    IF UnitKeys[i] \in DOMAIN feats /\ UnitKeys[i] \in DOMAIN target
                    THEN <<feats[UnitKeys[i]] - target[UnitKeys[i]]>> ELSE <<>>]
        rest == [i \in 1..2 |->
                    LET key == <<"tempo", "loudness">>[i]
                    IN  IF key \in DOMAIN feats /\ key \in DOMAIN target
                        THEN <<feats[key] - target[key]>> ELSE <<>>]
    IN  unit[1] \o unit[2] \o unit[3] \o unit[4] \o unit[5] \o rest[1] \o rest[2]

RECURSIVE SumSquares(_, _)
SumSquares(deltas, i) ==
    IF i > Len(deltas) THEN 0 ELSE deltas[i] * deltas[i] + SumSquares(deltas, i + 1)

\* a distance that takes a feature the target lacks for a target of 0
DistanceAgainstZero(feats, target) ==
    IF DOMAIN feats = {} \/ DOMAIN target = {} THEN [max |-> TRUE, total |-> 0, count |-> 0]
    ELSE LET full == [k \in DOMAIN feats \cup DOMAIN target |->
                         IF k \in DOMAIN target THEN target[k] ELSE 0]
             deltas == Deltas(feats, full)
         IN  IF deltas = <<>> THEN [max |-> TRUE, total |-> 0, count |-> 0]
             ELSE [max |-> FALSE, total |-> SumSquares(deltas, 1), count |-> Len(deltas)]

\* lines 37-58: 1e9 (max), or the root of total / count, given by total (in
\* hundredths) and count
FeatureDistanceOf(feats, target) ==
    IF DOMAIN feats = {} \/ DOMAIN target = {} THEN [max |-> TRUE, total |-> 0, count |-> 0]
    ELSE LET deltas == Deltas(feats, target)
         IN  IF deltas = <<>> THEN [max |-> TRUE, total |-> 0, count |-> 0]
             ELSE [max |-> FALSE, total |-> SumSquares(deltas, 1), count |-> Len(deltas)]

FeatureKeys == {"energy", "valence", "tempo", "loudness", "speechiness"}

\* two values per feature name
ValuesA == [energy |-> 3, valence |-> 9, tempo |-> 20, loudness |-> 0 - 5, speechiness |-> 5]
ValuesB == [energy |-> 7, valence |-> 1, tempo |-> 30, loudness |-> 0 - 12, speechiness |-> 0]

Mappings ==
    {[k \in d |-> v[k]] : d \in SUBSET FeatureKeys, v \in {ValuesA, ValuesB}}

DistanceInputs ==
    {[op |-> "distance_input", feats |-> f, target |-> t] : f \in Mappings, t \in Mappings}

DoDistance ==
    /\ fn.op = "distance_input"
    /\ fn' = [op |-> "distance", feats |-> fn.feats, target |-> fn.target,
              out |-> FeatureDistanceOf(fn.feats, fn.target)]
    /\ UNCHANGED <<history, catalog, models, last, served, ncalls, inflight>>

InitDistance == HelperInit(DistanceInputs)

SpecDistance == InitDistance /\ [][DoDistance]_vars

\* the scored feature names both mappings of the call hold
SharedScored ==
    (DOMAIN fn.feats \cap DOMAIN fn.target) \cap (Range(UnitKeys) \cup {"tempo", "loudness"})

\* C33: _feature_distance returns the maximal value (1e9) whenever the
\* candidate's features and the target share no scored feature or either is empty;
\* otherwise its value depends only on the features present in both.
C33_DistanceOfShared ==
    fn.op = "distance" =>
        /\ SharedScored = {} <=> fn.out.max
        /\ SharedScored # {} =>
               /\ fn.out.count = Cardinality(SharedScored)
               /\ fn.out = FeatureDistanceOf([k \in SharedScored |-> fn.feats[k]],
                                             [k \in SharedScored |-> fn.target[k]])

\* a candidate with features the target lacks, and two shared ones
C33_Witness ==
    /\ fn.op = "distance"
    /\ DOMAIN fn.feats = FeatureKeys
    /\ DOMAIN fn.target = {"energy", "tempo", "speechiness"}
    /\ fn.out = [max |-> FALSE, total |-> 116, count |-> 2]

----------------------------------------------------------------------------
(* _rank_tracks with a jitter hint, called twice on the same arguments.     *)
(* The SHA-1 digest of (track id, target features) is a function of the id  *)
(* that the call is given; hint is the mean of the jitter hint (0: no hint, *)
(* an empty one or one that sums to 0).  Scores are counted in 1e-5.        *)

MaxRankLimit == 3

\* a jitter that is drawn anew at every call
JitterDrawn(id, digest, hint, draw) == IF id = NoId \/ hint = 0 THEN 0 ELSE draw * hint

\* lines 856-876, _jitter_score
JitterScore(id, digest, hint, draw) == IF id = NoId \/ hint = 0 THEN 0 ELSE digest[id] * hint

\* lines 842-849: -distance + popularity_bonus + jitter_score
BaseScore(t, target, digest, hint, draw) ==
    LET distance == IF target < 0 THEN 100000 ELSE FeatureDistance(t.energy, target)
    IN  (0 - distance) + t.pop * 500 + JitterScore(t.id, digest, hint, draw)

\* lines 839-854: the positions of the input list in ranked order, cut at limit
RankOrder(tracks, target, digest, hint, draw, lim) ==
    IF tracks = <<>> THEN <<>>
    ELSE Take(TracksOf(SortByScore(
            [i \in 1..Len(tracks) |->
                [score |-> BaseScore(tracks[i], target, digest, hint, draw) - (i - 1),
                 track |-> i]])), lim)

Digests ==
    {[i \in {1, 2, 6} |-> 0],
     [i \in {1, 2, 6} |-> IF i = 6 THEN 700 ELSE 0 - 700],
     [i \in {1, 2, 6} |-> IF i = 1 THEN 0 - 2000 ELSE 1]}

RankInputs ==
    {[op |-> "rank_input", tracks |-> t, target |-> g, digest |-> d, hint |-> h, lim |-> n] :
        t \in UNION {[1..k -> {T0, T1, T2, T6}] : k \in 0..MaxPool},
        g \in {0 - 1, 0}, d \in Digests, h \in {0, 1}, n \in {0, 2, MaxRankLimit}}

\* two calls of _rank_tracks with the arguments of fn
DoRank ==
    /\ fn.op = "rank_input"
    /\ \E d1 \in {0 - 1000, 1000}, d2 \in {0 - 1000, 1000} :
         fn' = [op |-> "rank", tracks |-> fn.tracks, target |-> fn.target,
                digest |-> fn.digest, hint |-> fn.hint, lim |-> fn.lim,
                base |-> [i \in 1..Len(fn.tracks) |->
                             BaseScore(fn.tracks[i], fn.target, fn.digest, fn.hint, d1)],
                first |-> RankOrder(fn.tracks, fn.target, fn.digest, fn.hint, d1, fn.lim),
                second |-> RankOrder(fn.tracks, fn.target, fn.digest, fn.hint, d2, fn.lim)]
    /\ UNCHANGED <<history, catalog, models, last, served, ncalls, inflight>>

InitRank == HelperInit(RankInputs)

SpecRank == InitRank /\ [][DoRank]_vars

\* the score the i-th candidate is sorted by: its base score and the bias to
\* the input order, -index * 1e-5
FinalScore(i) == fn.base[i] - (i - 1)

----------------------------------------------------------------------------
(* SpotifyClient._prepare_target_features.  A value is a whole number, None *)
(* or a text that float() rejects; a name the mapping lacks is Missing.     *)

Unbounded == 1000000000        \* 1e9, the bound of a name without limits

\* _FEATURE_LIMITS
FeatureLimits(name) ==
    CASE name \in {"acousticness", "danceability", "energy", "instrumentalness",
                   "liveness", "speechiness", "valence"} -> <<0, 1>>
      [] name = "popularity"     -> <<0, 100>>
      [] name = "tempo"          -> <<30, 250>>
      [] name = "loudness"       -> <<0 - 60, 0>>
      [] name = "key"            -> <<0, 11>>
      [] name = "mode"           -> <<0, 1>>
      [] name = "time_signature" -> <<3, 7>>
      [] OTHER                   -> <<0 - Unbounded, Unbounded>>

\* a clamp that forgets the lower bound
ClampBelowOnly(name, val) == Min(FeatureLimits(name)[2], val)

\* lines 386-388, _clamp
Clamp(name, val) == Max(FeatureLimits(name)[1], Min(FeatureLimits(name)[2], val))

PreparedNames == {"energy", "tempo", "loudness", "mood"}

\* lines 379-399: the applied mapping; a name with None or an unparseable value is left out
PrepareTargetFeatures(target) ==
    [n \in {m \in PreparedNames : target[m].k = "num"} |-> Clamp(n, target[n].v)]

PrepareValues ==
    {None, Junk} \cup {Num(v) : v \in {0 - 2000000000, 0 - 70, 0 - 5, 0, 1, 2, 100, 300, 2000000000}}

PrepareInputs ==
    {[op |-> "prepare_input", target |-> t] : t \in [PreparedNames -> PrepareValues]}

DoPrepare ==
    /\ fn.op = "prepare_input"
    /\ fn' = [op |-> "prepare", target |-> fn.target, applied |-> PrepareTargetFeatures(fn.target)]
    /\ UNCHANGED <<history, catalog, models, last, served, ncalls, inflight>>

InitPrepare == HelperInit(PrepareInputs)

SpecPrepare == InitPrepare /\ [][DoPrepare]_vars

\* the bounds the limits table declares for the names of the model
Declared == [energy |-> <<0, 1>>, tempo |-> <<30, 250>>, loudness |-> <<0 - 60, 0>>]

\* C35: _prepare_target_features clamps every known feature into its declared
\* bounds (0 to 1 for energy, 30 to 250 for tempo, -60 to 0 for loudness) and
\* passes a feature with an unknown name through unchanged.
C35_ClampedOrUnchanged ==
    fn.op = "prepare" =>
        \A n \in DOMAIN fn.applied :
            IF n \in DOMAIN Declared
            THEN Declared[n][1] <= fn.applied[n] /\ fn.applied[n] <= Declared[n][2]
            ELSE fn.applied[n] = fn.target[n].v

\* C35 as the code has it: every numeric feature is applied; a known one is
\* moved to the nearest value within its declared bounds, an unknown one is
\* unchanged between -1e9 and 1e9 and moved to the nearer of the two beyond.
C35_ClampedWithinLimits ==
    fn.op = "prepare" =>
        /\ DOMAIN fn.applied = {n \in PreparedNames : fn.target[n].k = "num"}
        /\ \A n \in DOMAIN fn.applied :
              LET v  == fn.target[n].v
                  lo == IF n \in DOMAIN Declared THEN Declared[n][1] ELSE 0 - 1000000000
                  hi == IF n \in DOMAIN Declared THEN Declared[n][2] ELSE 1000000000
              IN  fn.applied[n] = (IF v < lo THEN lo ELSE IF v > hi THEN hi ELSE v)

\* energy above 1, tempo below 30 and an unknown feature above 1e9 in one call
C35_Witness ==
    /\ fn.op = "prepare"
    /\ fn.target["energy"] = Num(2) /\ fn.applied["energy"] = 1
    /\ fn.target["tempo"] = Num(0 - 5) /\ fn.applied["tempo"] = 30
    /\ fn.target["loudness"] = None
    /\ fn.target["mood"] = Num(2000000000) /\ fn.applied["mood"] = 1000000000

----------------------------------------------------------------------------
(* SpotifyClient's access token.  A token is the number of the grant that   *)
(* issued it (0 is None); time is counted in minutes; the token endpoint is *)
(* srv: which grants it accepts, the life of the tokens it issues now, and  *)
(* whether a refresh grant hands out a refresh token.                       *)

MaxClock == 4
MaxIssued == 6
ExpiryMargin == 1        \* the 60 seconds taken off expires_in

Servers == [refreshOk : BOOLEAN, clientOk : BOOLEAN, life : {1, 3}, rotates : BOOLEAN]

\* a grant whose answer leaves the expiry as it was
GrantedKeepingExpiry(c, grant) ==
    [c EXCEPT !.access = c.issued + 1, !.issued = c.issued + 1,
              !.posts = Append(@, grant),
              !.refresh = IF grant = "refresh_token" /\ c.srv.rotates THEN TRUE ELSE @,
              !.source = IF grant = "refresh_token" /\ c.srv.rotates THEN "user" ELSE @]

\* lines 176-181: the answer of an accepted grant is stored
Granted(c, grant) ==
    [c EXCEPT !.access = c.issued + 1, !.issued = c.issued + 1,
              !.expiry = c.now + c.srv.life - ExpiryMargin,
              !.posts = Append(@, grant),
              !.refresh = IF grant = "refresh_token" /\ c.srv.rotates THEN TRUE ELSE @,
              !.source = IF grant = "refresh_token" /\ c.srv.rotates THEN "user" ELSE @]

RECURSIVE ObtainAccessToken(_)
\* lines 142-181, _obtain_access_token
ObtainAccessToken(c) ==
    LET user  == c.source = "user" /\ c.refresh
        grant == IF user THEN "refresh_token" ELSE "client_credentials"
        c1    == IF user THEN c ELSE [c EXCEPT !.source = "client"]
        ok    == IF user THEN c.srv.refreshOk ELSE c.srv.clientOk
    IN  IF ~ok
        THEN IF c1.source = "user"
             THEN ObtainAccessToken([c1 EXCEPT !.source = "client", !.refresh = FALSE,
                                                !.posts = Append(@, grant)])
             ELSE [c1 EXCEPT !.posts = Append(@, grant), !.raised = "SpotifyAuthError"]
        ELSE Granted(c1, grant)

\* lines 183-185, _refresh_access_token
RefreshAccessToken(c) ==
    IF c.access = 0 \/ c.now >= c.expiry THEN ObtainAccessToken(c) ELSE c

\* lines 187-189, _auth_header, followed by the GET that carries the header
SendGet(c) ==
    LET c1 == RefreshAccessToken(c)
    IN  IF c1.raised # "" THEN c1 ELSE [c1 EXCEPT !.sent = Append(@, c1.access)]

Fresh(c, op) == [c EXCEPT !.op = op, !.posts = <<>>, !.sent = <<>>, !.raised = "",
                          !.was = [source |-> c.source, refresh |-> c.refresh,
                                   access |-> c.access, expiry |-> c.expiry]]

\* lines 443-448 and 486-499: the GET, and after a 401 the refresh and the one retry;
\* dt is the time that passed since the first GET was sent
RequestWithRetry(c, op, status, dt) ==
    LET c1 == SendGet(Fresh(c, op))
    IN  IF c1.raised # "" \/ status # 401 THEN c1
        ELSE LET c2 == RefreshAccessToken([c1 EXCEPT !.now = @ + dt])
             IN  IF c2.raised # "" THEN c2 ELSE SendGet(c2)

NewClient(refresh, srv) ==
    [op |-> "init", source |-> IF refresh THEN "user" ELSE "client", refresh |-> refresh,
     access |-> 0, expiry |-> 0, now |-> 0, issued |-> 0, posts |-> <<>>, sent |-> <<>>,
     raised |-> "", srv |-> srv,
     was |-> [source |-> "client", refresh |-> FALSE, access |-> 0, expiry |-> 0]]

\* lines 117-138: the constructor ends with _obtain_access_token; a client exists only
\* when that call did not raise
Clients ==
    {c \in {ObtainAccessToken(NewClient(r, s)) : r \in BOOLEAN, s \in Servers} : c.raised = ""}

CallObtain ==
    /\ fn.op # "none" /\ fn.issued + 3 <= MaxIssued
    /\ fn' = ObtainAccessToken(Fresh(fn, "obtain"))
    /\ UNCHANGED <<history, catalog, models, last, served, ncalls, inflight>>

GetRecommendations ==
    /\ fn.issued + 3 <= MaxIssued
    /\ \E status \in {200, 401, 403}, dt \in 0 .. 1 :
          /\ fn.now + dt <= MaxClock
          /\ fn' = RequestWithRetry(fn, "get_recommendations", status, dt)
    /\ UNCHANGED <<history, catalog, models, last, served, ncalls, inflight>>

GetAudioFeatures ==
    /\ fn.issued + 3 <= MaxIssued
    /\ \E status \in {200, 401, 403}, dt \in 0 .. 1 :
          /\ fn.now + dt <= MaxClock
          /\ fn' = RequestWithRetry(fn, "get_audio_features", status, dt)
    /\ UNCHANGED <<history, catalog, models, last, served, ncalls, inflight>>

\* lines 215-220, clear_user_token
ClearUserToken ==
    /\ fn' = [Fresh(fn, "clear") EXCEPT !.source = "client", !.refresh = FALSE,
                                         !.access = 0, !.expiry = 0]
    /\ UNCHANGED <<history, catalog, models, last, served, ncalls, inflight>>

Tick ==
    /\ fn.now < MaxClock
    /\ fn' = [fn EXCEPT !.now = @ + 1, !.op = "tick"]
    /\ UNCHANGED <<history, catalog, models, last, served, ncalls, inflight>>

ServerChanges ==
    /\ \E s \in Servers : s # fn.srv /\ fn' = [fn EXCEPT !.srv = s, !.op = "server"]
    /\ UNCHANGED <<history, catalog, models, last, served, ncalls, inflight>>

InitToken == HelperInit(Clients)

NextToken ==
    \/ CallObtain
    \/ GetRecommendations
    \/ GetAudioFeatures
    \/ ClearUserToken
    \/ Tick
    \/ ServerChanges

SpecToken == InitToken /\ [][NextToken]_vars

\* C36: when a catalog request of the client is answered with 401, the one
\* retry of that request carries a newly obtained access token, not the
\* rejected one.
C36_RetryWithNewToken ==
    (fn.op \in {"get_recommendations", "get_audio_features"} /\ Len(fn.sent) = 2)
        => fn.sent[2] # fn.sent[1]

\* C37: _obtain_access_token posts at most two grants.  A rejected refresh
\* grant drops the refresh token, switches to client credentials and is
\* followed by exactly one client-credentials grant; SpotifyAuthError is
\* raised only after a rejected client-credentials grant; after an accepted
\* grant the access token is the one just issued and the expiry is set from it.
C37_ObtainTerminates ==
    fn.op = "obtain" =>
        /\ Len(fn.posts) \in {1, 2}
        /\ (fn.was.source = "user" /\ fn.was.refresh /\ ~fn.srv.refreshOk)
              => /\ fn.posts = <<"refresh_token", "client_credentials">>
                 /\ ~fn.refresh /\ fn.source = "client"
        /\ Len(fn.posts) = 2 => fn.posts[1] = "refresh_token"
        /\ fn.raised # "" => /\ fn.raised = "SpotifyAuthError"
                             /\ fn.posts[Len(fn.posts)] = "client_credentials"
                             /\ ~fn.srv.clientOk
                             /\ fn.access = fn.was.access /\ fn.expiry = fn.was.expiry
        /\ fn.raised = "" => /\ fn.access = fn.issued /\ fn.access # fn.was.access
                             /\ fn.expiry = fn.now + fn.srv.life - ExpiryMargin

\* a rejected refresh grant followed by an accepted client-credentials grant, late enough
\* that the expiry differs from the one the client started with
C37_Witness ==
    /\ fn.op = "obtain" /\ fn.raised = ""
    /\ fn.posts = <<"refresh_token", "client_credentials">>
    /\ fn.was.refresh /\ ~fn.refresh /\ fn.source = "client"
    /\ fn.access > 1 /\ fn.expiry # fn.was.expiry

----------------------------------------------------------------------------
(* SpotifyService's raw HTTP helpers.  A token is the number of the grant   *)
(* that issued it (0 is None); valid says that the stored expiry lies in    *)
(* the future; statuses are the catalog's answers to the GETs of one call,  *)
(* in the order the GETs are sent.                                          *)

MaxTokens == 6
MaxGets == 4

\* lines 153-167, _store_token_from_response after an accepted grant
StoreToken(s, source) ==
    [s EXCEPT !.token = s.issued + 1, !.issued = s.issued + 1, !.valid = TRUE,
              !.source = source]

\* lines 108-114
RefreshClientToken(s) ==
    IF ~s.srv.clientOk THEN [s EXCEPT !.raised = "SpotifyAuthError"]
    ELSE StoreToken(s, "client")

\* lines 116-132
RefreshUserToken(s) ==
    IF ~s.refreshCfg \/ ~s.srv.userOk THEN [s EXCEPT !.raised = "SpotifyAuthError"]
    ELSE StoreToken(s, "user")

\* lines 98-106, _ensure_token
EnsureToken(s) ==
    IF s.token # 0 /\ s.valid THEN s
    ELSE IF s.source = "user" THEN RefreshUserToken(s)
    ELSE RefreshClientToken(s)

\* the GET itself: the header carries the token just ensured
IssueGet(s, market) ==
    LET n == Len(s.gets) + 1
    IN  [s EXCEPT !.gets = Append(@, [token |-> s.token, source |-> s.source, market |-> market]),
                  !.status = IF n <= Len(s.statuses) THEN s.statuses[n] ELSE 200]

\* an elevation that does not look at the source of the current token
ElevatesAnySource(s, allow) == s.status = 403 /\ allow /\ s.refreshCfg

\* lines 327-332
Elevates(s, allow) == s.status = 403 /\ allow /\ s.refreshCfg /\ s.source # "user"

\* lines 304-345, _request_with_refresh
RequestWithRefresh(s, market, allow) ==
    LET s1 == EnsureToken(s)
        s2 == IssueGet(s1, market)
        s3 == EnsureToken([s2 EXCEPT !.token = 0])
        s4 == IF s2.status # 401 THEN s2
              ELSE IF s3.raised # "" THEN s3 ELSE IssueGet(s3, market)
        s5 == EnsureToken([s4 EXCEPT !.token = 0, !.source = "user"])
    IN  IF s1.raised # "" THEN s1
        ELSE IF s4.raised # "" THEN s4
        ELSE IF ~Elevates(s4, allow) THEN s4
        ELSE IF s5.raised # "" THEN s5 ELSE IssueGet(s5, market)

\* lines 273-302, _get
ServiceGet(s, market, allow) ==
    LET r1 == RequestWithRefresh(s, market, allow)
        r2 == IF r1.raised = "" /\ r1.status = 403 /\ market
              THEN [RequestWithRefresh(r1, FALSE, allow) EXCEPT !.rounds = 2]
              ELSE r1
    IN  IF r2.raised # "" THEN r2
        ELSE IF r2.status >= 400 THEN [r2 EXCEPT !.raised = "SpotifyServiceError"]
        ELSE r2

Called(s, op, statuses, market, allow) ==
    [s EXCEPT !.op = op, !.gets = <<>>, !.status = 0, !.raised = "", !.rounds = 1,
              !.statuses = statuses, !.market = market, !.allow = allow,
              !.was = [token |-> s.token, source |-> s.source]]

\* only the answers that were received are kept
Answered(s) == [s EXCEPT !.statuses = Take(@, Len(s.gets))]

\* lines 46-58: the service after construction, against each token endpoint
Services ==
    {[op |-> "init", token |-> 0, valid |-> FALSE, issued |-> 0,
      source |-> IF cfg THEN "user" ELSE "client", refreshCfg |-> cfg,
      srv |-> [clientOk |-> c, userOk |-> u],
      gets |-> <<>>, status |-> 0, raised |-> "", rounds |-> 1, statuses |-> <<>>,
      market |-> FALSE, allow |-> FALSE, was |-> [token |-> 0, source |-> "client"]]
        : cfg \in BOOLEAN, c \in BOOLEAN, u \in BOOLEAN}

AnswerLists == [1 .. MaxGets -> {200, 401, 403}]

CallRequest ==
    /\ fn.issued + MaxGets <= MaxTokens
    /\ \E statuses \in AnswerLists, market \in BOOLEAN, allow \in BOOLEAN :
          fn' = Answered(RequestWithRefresh(Called(fn, "request", statuses, market, allow),
                                            market, allow))
    /\ UNCHANGED <<history, catalog, models, last, served, ncalls, inflight>>

CallGet ==
    /\ fn.issued + MaxGets <= MaxTokens
    /\ \E statuses \in AnswerLists, market \in BOOLEAN, allow \in BOOLEAN :
          fn' = Answered(ServiceGet(Called(fn, "get", statuses, market, allow), market, allow))
    /\ UNCHANGED <<history, catalog, models, last, served, ncalls, inflight>>

\* the stored expiry is reached
Expire ==
    /\ fn.token # 0 /\ fn.valid
    /\ fn' = [fn EXCEPT !.valid = FALSE, !.op = "expire"]
    /\ UNCHANGED <<history, catalog, models, last, served, ncalls, inflight>>

EndpointChanges ==
    /\ \E c \in BOOLEAN, u \in BOOLEAN :
          /\ [clientOk |-> c, userOk |-> u] # fn.srv
          /\ fn' = [fn EXCEPT !.srv = [clientOk |-> c, userOk |-> u], !.op = "endpoint"]
    /\ UNCHANGED <<history, catalog, models, last, served, ncalls, inflight>>

InitService == HelperInit(Services)

NextService ==
    \/ CallRequest
    \/ CallGet
    \/ Expire
    \/ EndpointChanges

SpecService == InitService /\ [][NextService]_vars

\* the GETs of one round, as positions in fn.gets
RoundOne == {i \in 1 .. Len(fn.gets) : fn.gets[i].market = fn.market}

\* GET i of a round that starts at position first is a permitted retry of the GET before it
RetryAllowed(i, first) ==
    \/ /\ fn.statuses[i - 1] = 401 /\ i = first + 1
       /\ fn.gets[i].token > fn.gets[i - 1].token
       /\ \A j \in 1 .. (i - 1) : fn.gets[j].token # fn.gets[i].token
    \/ /\ fn.statuses[i - 1] = 403 /\ fn.allow /\ fn.refreshCfg
       /\ fn.gets[i - 1].source # "user" /\ fn.gets[i].source = "user"
       /\ \A j \in (i + 1) .. Len(fn.gets) : fn.gets[j].source = "user" /\ fn.statuses[j - 1] # 403

\* C38: _request_with_refresh sends at most three GETs per call: the first,
\* one retry with a newly fetched token after a 401, and one retry with a
\* user token after a 403, the last only when elevation is allowed, a refresh
\* token is configured and the current token is not a user token.  _get adds
\* at most one further round, with the market parameter removed.
C38_BoundedAttempts ==
    /\ fn.op = "request" =>
          /\ Len(fn.gets) <= 3
          /\ \A i \in 2 .. Len(fn.gets) : RetryAllowed(i, 1)
          /\ \A i \in 1 .. Len(fn.gets) : fn.gets[i].market = fn.market
    /\ fn.op = "get" =>
          /\ fn.rounds \in {1, 2}
          /\ Len(fn.gets) <= 6
          /\ fn.rounds = 1 => Len(fn.gets) <= 3 /\ \A i \in 2 .. Len(fn.gets) : RetryAllowed(i, 1)
          /\ fn.rounds = 2 =>
                \E k \in 1 .. 3 :
                    /\ fn.market /\ fn.statuses[k] = 403 /\ Len(fn.gets) <= k + 3
                    /\ \A i \in 1 .. k : fn.gets[i].market
                    /\ \A i \in (k + 1) .. Len(fn.gets) : ~fn.gets[i].market
                    /\ \A i \in 2 .. k : RetryAllowed(i, 1)
                    /\ \A i \in (k + 2) .. Len(fn.gets) : RetryAllowed(i, k + 1)

\* a _get of two rounds, each with a 401 and a retry that carries a new token
C38_Witness ==
    /\ fn.op = "get" /\ fn.rounds = 2 /\ fn.raised = ""
    /\ fn.statuses = <<401, 403, 401, 200>>
    /\ Len(fn.gets) = 4
    /\ fn.gets[1].market /\ fn.gets[2].market /\ ~fn.gets[3].market /\ ~fn.gets[4].market
    /\ fn.gets[1].token < fn.gets[2].token /\ fn.gets[2].token = fn.gets[3].token
    /\ fn.gets[3].token < fn.gets[4].token

----------------------------------------------------------------------------
(* SpotifyService.collect_tracks.  A track request is the id of the track   *)
(* its search resolves to (0: none found); a fallback query is the list of  *)
(* the ids its search yields.                                               *)

MaxRequests == 3
MaxQueries == 2
MaxYield == 2
MaxCollect == 3

\* a check of seen_ids that lets every track pass
UnseenAlways(id, resolved) == TRUE

\* lines 72 and 81: the id is not in seen_ids
Unseen(id, resolved) == \A j \in 1 .. Len(resolved) : resolved[j].id # id

RECURSIVE ExplicitScan(_, _, _, _)
\* lines 70-78: the explicit requests, in order, until the limit is reached
ExplicitScan(reqs, i, resolved, lim) ==
    IF i > Len(reqs) THEN [resolved |-> resolved, full |-> FALSE]
    ELSE IF reqs[i] = 0 \/ ~Unseen(reqs[i], resolved)
         THEN ExplicitScan(reqs, i + 1, resolved, lim)
    ELSE LET r == Append(resolved, [id |-> reqs[i], source |-> "gemini"])
         IN  IF Len(r) >= lim THEN [resolved |-> r, full |-> TRUE]
             ELSE ExplicitScan(reqs, i + 1, r, lim)

RECURSIVE FallbackScan(_, _, _, _, _)
\* lines 80-90: query q is searched when its loop starts; t is the position in its yield
FallbackScan(queries, q, t, resolved, lim) ==
    IF q > Len(queries) THEN [resolved |-> resolved, searched |-> Len(queries)]
    ELSE IF t > Len(queries[q]) THEN FallbackScan(queries, q + 1, 1, resolved, lim)
    ELSE IF ~Unseen(queries[q][t], resolved) THEN FallbackScan(queries, q, t + 1, resolved, lim)
    ELSE LET r == Append(resolved, [id |-> queries[q][t], source |-> "fallback"])
         IN  IF Len(r) >= lim THEN [resolved |-> r, searched |-> q]
             ELSE FallbackScan(queries, q, t + 1, r, lim)

\* lines 64-92, collect_tracks
CollectTracks(reqs, queries, lim) ==
    LET e == ExplicitScan(reqs, 1, <<>>, lim)
    IN  IF e.full THEN [resolved |-> e.resolved, searched |-> 0]
        ELSE FallbackScan(queries, 1, 1, e.resolved, lim)

SeqsUpTo(S, n) == UNION {[1 .. k -> S] : k \in 0 .. n}

CollectInputs ==
    {[op |-> "collect_input", reqs |-> r, queries |-> q, limit |-> lim] :
        r \in SeqsUpTo(0 .. 3, MaxRequests),
        q \in SeqsUpTo(SeqsUpTo(1 .. 3, MaxYield), MaxQueries),
        lim \in 1 .. MaxCollect}

DoCollect ==
    /\ fn.op = "collect_input"
    /\ fn' = [op |-> "collect", reqs |-> fn.reqs, queries |-> fn.queries, limit |-> fn.limit,
              out |-> CollectTracks(fn.reqs, fn.queries, fn.limit)]
    /\ UNCHANGED <<history, catalog, models, last, served, ncalls, inflight>>

InitCollect == HelperInit(CollectInputs)

SpecCollect == InitCollect /\ [][DoCollect]_vars

\* the ids the explicit requests resolve to, without repeats and unresolved requests
ExplicitIds == {fn.reqs[i] : i \in 1 .. Len(fn.reqs)} \ {0}

\* C39: collect_tracks with limit >= 1 returns at most limit tracks, no two
\* with the same id, the tracks of explicit requests before those of fallback
\* queries; fallback queries are searched only when the explicit requests
\* produced fewer than limit tracks.
C39_CollectBounded ==
    fn.op = "collect" =>
        LET out == fn.out.resolved
        IN  /\ Len(out) <= fn.limit
            /\ \A i, j \in 1 .. Len(out) : i # j => out[i].id # out[j].id
            /\ \A i, j \in 1 .. Len(out) :
                  (out[i].source = "gemini" /\ out[j].source = "fallback") => i < j
            /\ \A i \in 1 .. Len(out) :
                  out[i].source = "gemini" => out[i].id \in ExplicitIds
            /\ fn.out.searched > 0 => Cardinality(ExplicitIds) < fn.limit
            /\ Cardinality(ExplicitIds) < fn.limit =>
                  /\ Cardinality({i \in 1 .. Len(out) : out[i].source = "gemini"})
                        = Cardinality(ExplicitIds)
                  /\ (Len(out) < fn.limit => fn.out.searched = Len(fn.queries))

\* one explicit track, then a fallback query whose first yield repeats it; the second
\* query is not searched because the first fills the limit
C39_Witness ==
    /\ fn.op = "collect" /\ fn.limit = 2
    /\ fn.reqs = <<0, 2, 2>>
    /\ fn.queries = << <<2, 3>>, <<1>> >>
    /\ fn.out.resolved = <<[id |-> 2, source |-> "gemini"], [id |-> 3, source |-> "fallback"]>>
    /\ fn.out.searched = 1

----------------------------------------------------------------------------
(* apply_filters under the four floors, on one pool.                        *)

MaxFloorPool == 3

\* the id of T1 under the name and lead artist of T6, less popular than both
T8 == Trk(1, "Deep", "B", 47, 0)

Floors == {Floor1, Floor2, Floor3, SupplementFloor}

FloorInputs ==
    {[op |-> "floors_input", pool |-> p] :
        p \in UNION {[1 .. n -> {T0, T1, T2, T3, T4, T5, T6, T7, T8}] : n \in 0 .. MaxFloorPool}}

DoFloors ==
    /\ fn.op = "floors_input"
    /\ fn' = [op |-> "floors", pool |-> fn.pool,
              kept |-> [f \in Floors |-> ApplyFilters(fn.pool, f)]]
    /\ UNCHANGED <<history, catalog, models, last, served, ncalls, inflight>>

InitFloors == HelperInit(FloorInputs)

SpecFloors == InitFloors /\ [][DoFloors]_vars

LowerKeepsMore ==
    \A lo \in Floors, hi \in Floors : lo < hi => Len(fn.kept[lo]) >= Len(fn.kept[hi])

\* no id of the pool occurs under two different normalized (name, lead artist) pairs
IdsConsistent ==
    \A i, j \in 1 .. Len(fn.pool) :
        (fn.pool[i].id # NoId /\ fn.pool[i].id = fn.pool[j].id)
            => PairOf(fn.pool[i]) = PairOf(fn.pool[j])

====
